---- MODULE Spec2Model ----
(***************************************************************************)
(* Commodity price visualizer: the merge of the three per-commodity feeds  *)
(* (fetchFreshData), the Redux commodity slice, the fetch/diff handler of  *)
(* the dashboard component and the chart calculations.                     *)
(*                                                                         *)
(* JavaScript strings are sequences of one-character strings; JavaScript   *)
(* numbers are records [k, n, d]: a finite rational n/d in lowest terms    *)
(* (k = "fin"), NaN (k = "nan") or a signed infinity (k = "inf", n = +-1). *)
(* An absent object field is a key missing from the DOMAIN of the record.  *)
(***************************************************************************)
EXTENDS Integers, Sequences, FiniteSets, TLC

VARIABLES
    \* Redux store: state.commodity and state.ui.showChart
    chartData, loading, error, dataSource, showChart,
    \* pending createAsyncThunk runs, each with the handler awaiting it
    thunks,
    \* dashboard component: mounted, fetchFreshData dispatches so far, the
    \* result the last awaited fetchFreshData returned, the change log state
    \* and the records posted to /api/logs/change
    mounted, fetches, lastResult, changeLog, showChangeLog, postedLogs,
    \* fetchFreshData merge step on drawn upstream payloads
    copperData, zincData, oilData, combinedData, mergePc,
    \* normalizeDate on a drawn string
    rawDate, normalized, normPc,
    \* calculateChartData on a drawn window
    filteredChartData, displayMode, displayData, calcPc,
    \* calculateCorrelation on a drawn table
    corrData, corrKeys, correlation, corrPc,
    \* handleFetchFresh after its await, on drawn tables
    detectPrev, detectNew, detectPc,
    \* filteredChartData on a drawn table, selector, range and clock
    filterTable, dateFilter, dateRange, now, timeZone, filterResult, filterPc,
    \* the commodity_prices table, its id sequence and the upserts executed so far
    commodity_prices, priceIdSeq, upsertLog,
    \* the LMEDataFetcher component with the localStorage cache
    lmeLoading, lmeError, lmeSuccess, lmeChartData, lmeShowChart, cacheAvailable, lastCacheTime, localStorage, consoleErrors, lmeFetches, lastSave, lmePc,
    \* minutes since the auto-fetch interval was armed and since its callback last ran
    sinceArmed, sinceTick,
    \* the dashboard's series visibility, correlation memo, drawn lines and last handler run
    visibleSeries, correlations, shownLines, lastHandler

vars == <<chartData, loading, error, dataSource, showChart, thunks, mounted,
          fetches, lastResult, changeLog, showChangeLog, postedLogs,
          copperData, zincData, oilData, combinedData, mergePc,
          rawDate, normalized, normPc,
          filteredChartData, displayMode, displayData, calcPc,
          corrData, corrKeys, correlation, corrPc,
          detectPrev, detectNew, detectPc,
          filterTable, dateFilter, dateRange, now, timeZone, filterResult, filterPc,
          commodity_prices, priceIdSeq, upsertLog,
          lmeLoading, lmeError, lmeSuccess, lmeChartData, lmeShowChart, cacheAvailable, lastCacheTime, localStorage, consoleErrors, lmeFetches, lastSave, lmePc,
          sinceArmed, sinceTick,
          visibleSeries, correlations, shownLines, lastHandler>>

storeVars == <<chartData, loading, error, dataSource, showChart, thunks, mounted,
               fetches, lastResult, changeLog, showChangeLog, postedLogs>>

mergeVars == <<copperData, zincData, oilData, combinedData, mergePc>>

normVars == <<rawDate, normalized, normPc>>

calcVars == <<filteredChartData, displayMode, displayData, calcPc>>

corrVars == <<corrData, corrKeys, correlation, corrPc>>

detectVars == <<detectPrev, detectNew, detectPc>>

filterVars == <<filterTable, dateFilter, dateRange, now, timeZone, filterResult, filterPc>>

dbVars == <<commodity_prices, priceIdSeq, upsertLog>>

lmeVars == <<lmeLoading, lmeError, lmeSuccess, lmeChartData, lmeShowChart, cacheAvailable, lastCacheTime, localStorage, consoleErrors, lmeFetches, lastSave, lmePc>>

timerVars == <<sinceArmed, sinceTick>>

viewVars == <<visibleSeries, correlations, shownLines, lastHandler>>

----------------------------------------------------------------------------
(* Bounds *)

\* most points the three upstream payloads hold together
MaxPoints == 4

\* longest string handed to normalizeDate
MaxStrLen == 4

\* longest window handed to calculateChartData
MaxRows == 2

\* fetchFreshData dispatches explored in one behaviour
MaxFetches == 2

\* longest table handed to calculateCorrelation
MaxCorrRows == 32

\* longest repeating pattern of values a column of that table is built from
MaxPeriod == 2

\* most dates the previous and the new table of a change detection span
MaxChangeDates == 4

\* most rows of a table handed to the date filter
MaxFilterRows == 5

\* most upsert statements executed against commodity_prices
MaxUpserts == 3

\* most minutes followed since the interval callback last ran
MaxWait == 6

SeqsUpTo(S, n) == UNION {[1..k -> S] : k \in 0..n}

----------------------------------------------------------------------------
(* JavaScript strings *)

RECURSIVE IndexOfFrom(_, _, _)
\* first position >= i of character c in s, 0 when there is none
IndexOfFrom(s, c, i) ==
    IF i > Len(s) THEN 0
    ELSE IF s[i] = c THEN i
    ELSE IndexOfFrom(s, c, i + 1)

\* String.prototype.includes for a one-character needle
includes(s, c) == IndexOfFrom(s, c, 1) # 0

RECURSIVE split(_, _)
\* String.prototype.split for a one-character separator
split(s, c) ==
    LET i == IndexOfFrom(s, c, 1) IN
    IF i = 0 THEN <<s>>
    ELSE <<SubSeq(s, 1, i - 1)>> \o split(SubSeq(s, i + 1, Len(s)), c)

\* the text a template literal emits for undefined
UndefinedText == <<"u", "n", "d", "e", "f", "i", "n", "e", "d">>

\* array destructuring: element i, or undefined (rendered by the template)
Part(parts, i) == IF i <= Len(parts) THEN parts[i] ELSE UndefinedText

\* UTF-16 code unit of the characters the model uses
CharCode(c) ==
    CASE c = " " -> 32
      [] c = "-" -> 45
      [] c = "." -> 46
      [] c = "/" -> 47
      [] c = "0" -> 48 [] c = "1" -> 49 [] c = "2" -> 50 [] c = "3" -> 51
      [] c = "4" -> 52 [] c = "5" -> 53 [] c = "6" -> 54 [] c = "7" -> 55
      [] c = "8" -> 56 [] c = "9" -> 57
      [] c = ":" -> 58
      [] c = "B" -> 66 [] c = "D" -> 68 [] c = "I" -> 73
      [] c = "T" -> 84 [] c = "Z" -> 90
      [] c = "a" -> 97 [] c = "b" -> 98 [] c = "c" -> 99 [] c = "d" -> 100
      [] c = "e" -> 101 [] c = "f" -> 102 [] c = "i" -> 105 [] c = "n" -> 110
      [] c = "t" -> 116 [] c = "u" -> 117 [] c = "y" -> 121

IsDigit(c) == c \in {"0", "1", "2", "3", "4", "5", "6", "7", "8", "9"}

DigitVal(c) == CharCode(c) - 48

RECURSIVE StrLess(_, _)
\* a < b on strings: lexicographic by code unit
StrLess(a, b) ==
    IF Len(b) = 0 THEN FALSE
    ELSE IF Len(a) = 0 THEN TRUE
    ELSE IF CharCode(a[1]) # CharCode(b[1]) THEN CharCode(a[1]) < CharCode(b[1])
    ELSE StrLess(Tail(a), Tail(b))

StrLeq(a, b) == a = b \/ StrLess(a, b)

----------------------------------------------------------------------------
(* JavaScript numbers *)

Abs(x) == IF x < 0 THEN -x ELSE x

Sign(x) == IF x < 0 THEN -1 ELSE 1

RECURSIVE GCD(_, _)
GCD(a, b) == IF b = 0 THEN a ELSE GCD(b, a % b)

NaN == [k |-> "nan", n |-> 0, d |-> 1]

Inf(s) == [k |-> "inf", n |-> s, d |-> 1]

\* the finite number n/d, d # 0, in lowest terms with a positive denominator
Fin(n, d) ==
    LET g == GCD(Abs(n), Abs(d)) IN
    [k |-> "fin", n |-> (Sign(d) * n) \div g, d |-> Abs(d) \div g]

Num(n) == Fin(n, 1)

IsZero(x) == x.k = "fin" /\ x.n = 0

\* a - b
NumSub(a, b) ==
    IF a.k = "nan" \/ b.k = "nan" THEN NaN
    ELSE IF a.k = "inf" /\ b.k = "inf" THEN (IF a.n = b.n THEN NaN ELSE a)
    ELSE IF a.k = "inf" THEN a
    ELSE IF b.k = "inf" THEN Inf(-b.n)
    ELSE Fin(a.n * b.d - b.n * a.d, a.d * b.d)

\* a + b
NumAdd(a, b) ==
    IF a.k = "nan" \/ b.k = "nan" THEN NaN
    ELSE IF a.k = "inf" /\ b.k = "inf" THEN (IF a.n = b.n THEN a ELSE NaN)
    ELSE IF a.k = "inf" THEN a
    ELSE IF b.k = "inf" THEN b
    ELSE Fin(a.n * b.d + b.n * a.d, a.d * b.d)

\* a * b
NumMul(a, b) ==
    IF a.k = "nan" \/ b.k = "nan" THEN NaN
    ELSE IF a.k = "inf" \/ b.k = "inf"
         THEN (IF IsZero(a) \/ IsZero(b) THEN NaN ELSE Inf(Sign(a.n) * Sign(b.n)))
    ELSE Fin(a.n * b.n, a.d * b.d)

\* a / b
NumDiv(a, b) ==
    IF a.k = "nan" \/ b.k = "nan" THEN NaN
    ELSE IF a.k = "inf" THEN (IF b.k = "inf" THEN NaN ELSE Inf(a.n * Sign(b.n)))
    ELSE IF b.k = "inf" THEN Num(0)
    ELSE IF IsZero(b) THEN (IF IsZero(a) THEN NaN ELSE Inf(Sign(a.n)))
    ELSE Fin(a.n * b.d, a.d * b.n)

\* ToBoolean of a number: 0 and NaN are falsy
NumTruthy(x) == ~(x.k = "nan" \/ IsZero(x))

\* a === b on numbers: NaN equals nothing
NumStrictEq(a, b) == a.k # "nan" /\ b.k # "nan" /\ a = b

----------------------------------------------------------------------------
(* Object fields *)

Has(obj, f) == f \in DOMAIN obj

\* obj with field f set to v (added when absent)
SetField(obj, f, v) ==
    [g \in DOMAIN obj \cup {f} |-> IF g = f THEN v ELSE obj[g]]

Commodities == {"copper", "zinc", "oil"}


----------------------------------------------------------------------------
(* JavaScript values of a payload field: a string or a number *)

JStr(s) == [t |-> "string", s |-> s]

JNum(x) == [t |-> "number", x |-> x]

\* ToBoolean: the empty string, 0 and NaN are falsy
Truthy(v) == IF v.t = "string" THEN Len(v.s) > 0 ELSE NumTruthy(v.x)

\* item.f used as a condition: an absent field is undefined, which is falsy
FieldTruthy(item, f) == Has(item, f) /\ Truthy(item[f])

RECURSIVE TrimStart(_)
TrimStart(s) ==
    IF Len(s) > 0 /\ s[1] = " " THEN TrimStart(Tail(s)) ELSE s

RECURSIVE DigitRun(_, _)
\* number of leading decimal digits of s from position i on
DigitRun(s, i) ==
    IF i <= Len(s) /\ IsDigit(s[i]) THEN 1 + DigitRun(s, i + 1) ELSE 0

RECURSIVE DigitsValue(_)
DigitsValue(s) ==
    IF Len(s) = 0 THEN 0
    ELSE 10 * DigitsValue(SubSeq(s, 1, Len(s) - 1)) + DigitVal(s[Len(s)])

RECURSIVE Pow10(_)
Pow10(e) == IF e = 0 THEN 1 ELSE 10 * Pow10(e - 1)

InfinityText == <<"I", "n", "f", "i", "n", "i", "t", "y">>

StartsWith(s, p) == Len(s) >= Len(p) /\ SubSeq(s, 1, Len(p)) = p

\* parseFloat of a string: leading blanks are skipped, then the longest prefix
\* that is a decimal literal (sign, Infinity, digits, fraction) is the result
\* and NaN when there is none. Exponent parts are not modelled.
parseFloatStr(s) ==
    LET t    == TrimStart(s)
        neg  == Len(t) > 0 /\ t[1] = "-"
        u    == IF neg THEN Tail(t) ELSE t
        sg   == IF neg THEN -1 ELSE 1
        ni   == DigitRun(u, 1)
        dot  == ni < Len(u) /\ u[ni + 1] = "."
        nf   == IF dot THEN DigitRun(u, ni + 2) ELSE 0
        ip   == DigitsValue(SubSeq(u, 1, ni))
        fp   == DigitsValue(SubSeq(u, ni + 2, ni + 1 + nf))
    IN  IF StartsWith(u, InfinityText) THEN Inf(sg)
        ELSE IF ni + nf = 0 THEN NaN
        ELSE Fin(sg * (ip * Pow10(nf) + fp), Pow10(nf))

\* parseFloat(value): a number is converted to its text and read back
parseFloat(v) == IF v.t = "string" THEN parseFloatStr(v.s) ELSE v.x

----------------------------------------------------------------------------
(* Dates *)

Dash == <<"-">>

\* normalizeDate with month and day exchanged in the template
normalizeDate_DayMonthSwapped(dateStr) ==
    IF Len(dateStr) = 0 THEN <<>>
    ELSE IF includes(dateStr, "/")
         THEN LET parts == split(dateStr, "/")
              IN  Part(parts, 3) \o Dash \o Part(parts, 1) \o Dash \o Part(parts, 2)
    ELSE dateStr

\* normalizeDate of fetchFreshData
normalizeDate(dateStr) ==
    IF Len(dateStr) = 0 THEN <<>>
    ELSE IF includes(dateStr, "/")
         THEN LET parts == split(dateStr, "/")
                  day   == Part(parts, 1)
                  month == Part(parts, 2)
                  year  == Part(parts, 3)
              IN  year \o Dash \o month \o Dash \o day
    ELSE dateStr

AllDigits(s) == \A i \in 1..Len(s) : IsDigit(s[i])

IsLeap(y) == (y % 4 = 0 /\ y % 100 # 0) \/ y % 400 = 0

DaysInMonth(y, m) ==
    IF m = 2 THEN (IF IsLeap(y) THEN 29 ELSE 28)
    ELSE IF m \in {4, 6, 9, 11} THEN 30 ELSE 31

\* days from 1970-01-01 to the civil date y-m-d
DaysFromCivil(y, m, d) ==
    LET yy  == IF m <= 2 THEN y - 1 ELSE y
        era == yy \div 400
        yoe == yy - era * 400
        mp  == IF m > 2 THEN m - 3 ELSE m + 9
        doy == (153 * mp + 2) \div 5 + d - 1
        doe == yoe * 365 + yoe \div 4 - yoe \div 100 + doy
    IN  era * 146097 + doe - 719468

\* s is a date of the ISO form YYYY-MM-DD naming a day of the calendar
IsIsoDate(s) ==
    /\ Len(s) = 10
    /\ s[5] = "-" /\ s[8] = "-"
    /\ AllDigits(SubSeq(s, 1, 4)) /\ AllDigits(SubSeq(s, 6, 7))
    /\ AllDigits(SubSeq(s, 9, 10))
    /\ LET y == DigitsValue(SubSeq(s, 1, 4))
           m == DigitsValue(SubSeq(s, 6, 7))
           d == DigitsValue(SubSeq(s, 9, 10))
       IN  m \in 1..12 /\ d \in 1..DaysInMonth(y, m)

\* s is a UTC date-time of the ISO form YYYY-MM-DDTHH:mm:ssZ
IsIsoDateTime(s) ==
    /\ Len(s) = 20
    /\ IsIsoDate(SubSeq(s, 1, 10))
    /\ s[11] = "T" /\ s[14] = ":" /\ s[17] = ":" /\ s[20] = "Z"
    /\ AllDigits(SubSeq(s, 12, 13)) /\ AllDigits(SubSeq(s, 15, 16))
    /\ AllDigits(SubSeq(s, 18, 19))
    /\ DigitsValue(SubSeq(s, 12, 13)) \in 0..23
    /\ DigitsValue(SubSeq(s, 15, 16)) \in 0..59
    /\ DigitsValue(SubSeq(s, 18, 19)) \in 0..59

\* seconds from the epoch to 00:00 UTC of the ISO date s
IsoDateSeconds(s) ==
    86400 * DaysFromCivil(DigitsValue(SubSeq(s, 1, 4)),
                          DigitsValue(SubSeq(s, 6, 7)),
                          DigitsValue(SubSeq(s, 9, 10)))

\* new Date(s).getTime(), NaN for an invalid date; the time value is kept in
\* seconds (every input has a whole number of them). The two ISO forms above
\* are read as UTC; a string with no digit in it is an invalid date. Other
\* strings are read engine by engine and no input of the model is one.
DateTime(s) ==
    IF IsIsoDate(s) THEN Num(IsoDateSeconds(s))
    ELSE IF IsIsoDateTime(s)
         THEN Num(IsoDateSeconds(SubSeq(s, 1, 10))
                  + 3600 * DigitsValue(SubSeq(s, 12, 13))
                  + 60 * DigitsValue(SubSeq(s, 15, 16))
                  + DigitsValue(SubSeq(s, 18, 19)))
    ELSE NaN

\* a >= b on numbers: false when either is NaN
NumGeq(a, b) ==
    /\ a.k # "nan" /\ b.k # "nan"
    /\ IF a.k = "inf" THEN (a.n = 1 \/ (b.k = "inf" /\ b.n = -1))
       ELSE IF b.k = "inf" THEN b.n = -1
       ELSE a.n * b.d >= b.n * a.d

SeriesStart == <<"2", "0", "2", "3", "-", "0", "1", "-", "0", "1">>

----------------------------------------------------------------------------
(* fetchFreshData: the merge of the three payloads *)

\* dataMap: a Map kept as the sequence of its rows in insertion order
MapHas(m, key) == \E i \in 1..Len(m) : m[i].date = key

MapGet(m, key) == m[CHOOSE i \in 1..Len(m) : m[i].date = key]

\* Map.set: an existing key keeps its place, a new key goes last
MapSet(m, key, row) ==
    IF MapHas(m, key)
    THEN [i \in 1..Len(m) |-> IF m[i].date = key THEN row ELSE m[i]]
    ELSE Append(m, row)

\* body of copperData.data.forEach
CopperItem(m, item) ==
    IF FieldTruthy(item, "date") /\ FieldTruthy(item, "value")
    THEN LET date == normalizeDate(item.date.s)
         IN  MapSet(m, date, [date |-> date, copper |-> parseFloat(item.value)])
    ELSE m

\* the zinc and oil bodies written like the copper body: the row is replaced
FieldItem_ReplacesRow(m, item, f) ==
    IF FieldTruthy(item, "date") /\ FieldTruthy(item, "value")
    THEN LET date == normalizeDate(item.date.s)
         IN  MapSet(m, date, SetField([date |-> date], f, parseFloat(item.value)))
    ELSE m

\* body of zincData.data.forEach and of oilData.data.forEach
FieldItem(m, item, f) ==
    IF FieldTruthy(item, "date") /\ FieldTruthy(item, "value")
    THEN LET date     == normalizeDate(item.date.s)
             existing == IF MapHas(m, date) THEN MapGet(m, date)
                         ELSE [date |-> date]
         IN  MapSet(m, date, SetField(existing, f, parseFloat(item.value)))
    ELSE m

RECURSIVE ForEachCopper(_, _)
ForEachCopper(m, items) ==
    IF Len(items) = 0 THEN m
    ELSE ForEachCopper(CopperItem(m, Head(items)), Tail(items))

RECURSIVE ForEachField(_, _, _)
ForEachField(m, items, f) ==
    IF Len(items) = 0 THEN m
    ELSE ForEachField(FieldItem(m, Head(items), f), Tail(items), f)

\* .filter(item => new Date(item.date) >= new Date("2023-01-01"))
FromSeriesStart(rows) ==
    SelectSeq(rows, LAMBDA r : NumGeq(DateTime(r.date), DateTime(SeriesStart)))

\* the comparator of the sort is negative, zero or positive
TimeBefore(a, b) == NumSub(DateTime(a.date), DateTime(b.date)).n < 0

RECURSIVE InsertByTime(_, _)
\* r put into the sorted sequence s behind every row that is not later
InsertByTime(s, r) ==
    IF Len(s) = 0 THEN <<r>>
    ELSE IF TimeBefore(r, Head(s)) THEN <<r>> \o s
    ELSE <<Head(s)>> \o InsertByTime(Tail(s), r)

\* the table left in Map insertion order
SortByTime_Unsorted(rows) == rows

RECURSIVE SortByTime(_)
\* .sort((a, b) => new Date(a.date).getTime() - new Date(b.date).getTime()):
\* Array.prototype.sort is stable
SortByTime(rows) ==
    IF Len(rows) = 0 THEN <<>>
    ELSE InsertByTime(SortByTime(SubSeq(rows, 1, Len(rows) - 1)), rows[Len(rows)])

\* the table fetchFreshData returns for the three payloads
Merge(copper, zinc, oil) ==
    LET m1 == ForEachCopper(<<>>, copper)
        m2 == ForEachField(m1, zinc, "zinc")
        m3 == ForEachField(m2, oil, "oil")
    IN  SortByTime(FromSeriesStart(m3))

----------------------------------------------------------------------------
(* Upstream payloads the merge is explored on *)

D_01_02_2026 == <<"0", "1", "/", "0", "2", "/", "2", "0", "2", "6">>

D_15_01_2026 == <<"1", "5", "/", "0", "1", "/", "2", "0", "2", "6">>

D_31_12_2022 == <<"3", "1", "/", "1", "2", "/", "2", "0", "2", "2">>

I_2026_02_01 == <<"2", "0", "2", "6", "-", "0", "2", "-", "0", "1">>

I_2026_01_15 == <<"2", "0", "2", "6", "-", "0", "1", "-", "1", "5">>

I_2022_12_31 == <<"2", "0", "2", "2", "-", "1", "2", "-", "3", "1">>

\* 2026-02-01T00:00:00Z: the same instant as 2026-02-01, another string
T_2026_02_01 == I_2026_02_01 \o <<"T", "0", "0", ":", "0", "0", ":", "0", "0", "Z">>

D_TBD == <<"T", "B", "D">>

V_100 == JStr(<<"1", "0", "0">>)

V_50 == JStr(<<"5", "0">>)

V_70 == JStr(<<"7", "0">>)

V_0 == JStr(<<"0">>)

V_abc == JStr(<<"a", "b", "c">>)

Pt(date, value) == [date |-> JStr(date), value |-> value]

\* copper arrives as DD/MM/YYYY
CopperPoints ==
    { Pt(D_01_02_2026, V_100), Pt(D_15_01_2026, V_abc), Pt(D_31_12_2022, V_50),
      Pt(D_01_02_2026, JNum(Num(0))), [value |-> V_100] }

\* zinc arrives as DD/MM/YYYY; ISO strings are passed through
ZincPoints ==
    { Pt(I_2026_02_01, V_50), Pt(D_15_01_2026, V_0), Pt(T_2026_02_01, V_70),
      [date |-> JStr(D_01_02_2026)] }

\* oil arrives as YYYY-MM-DD
OilPoints ==
    { Pt(I_2026_02_01, V_70), Pt(I_2022_12_31, V_abc), Pt(D_TBD, V_70),
      Pt(I_2026_01_15, V_50) }

----------------------------------------------------------------------------
(* Initial values of the parts of the state *)

Null == "null"

\* initialState of the two slices and the first render of the component
StoreInit ==
    /\ chartData = <<>>
    /\ loading = FALSE
    /\ error = Null
    /\ dataSource = Null
    /\ showChart = FALSE
    /\ thunks = <<>>
    /\ mounted = FALSE
    /\ fetches = 0
    /\ lastResult = [type |-> "none"]
    /\ changeLog = <<>>
    /\ showChangeLog = FALSE
    /\ postedLogs = <<>>

MergeIdle ==
    /\ copperData = <<>> /\ zincData = <<>> /\ oilData = <<>>
    /\ combinedData = <<>> /\ mergePc = "idle"

NormIdle == rawDate = <<>> /\ normalized = <<>> /\ normPc = "idle"

CalcIdle ==
    filteredChartData = <<>> /\ displayMode = "absolute" /\ displayData = <<>> /\ calcPc = "idle"

CorrIdle ==
    corrData = <<>> /\ corrKeys = <<>> /\ correlation = Num(0) /\ corrPc = "idle"

DetectIdle == detectPrev = <<>> /\ detectNew = <<>> /\ detectPc = "idle"

FilterIdle ==
    /\ filterTable = <<>> /\ dateFilter = "Max" /\ dateRange = <<>>
    /\ now = [y |-> 2026, m |-> 11, d |-> 4] /\ timeZone = "utcOrWest"
    /\ filterResult = <<>> /\ filterPc = "idle"

\* the table after setup.sql: no price rows, the id sequence not yet used
DbIdle == commodity_prices = {} /\ priceIdSeq = 0 /\ upsertLog = <<>>

\* useState initial values of LMEDataFetcher, nothing cached, not yet mounted
LmeIdle ==
    /\ lmeLoading = FALSE /\ lmeError = "" /\ lmeSuccess = [kind |-> "none"]
    /\ lmeChartData = <<>> /\ lmeShowChart = FALSE
    /\ cacheAvailable = FALSE /\ lastCacheTime = <<>>
    /\ localStorage = <<>> /\ consoleErrors = 0
    /\ lmeFetches = 0 /\ lastSave = "none" /\ lmePc = "unmounted"

\* no interval armed yet
TimerIdle == sinceArmed = 0 /\ sinceTick = 0

\* useState({copper: true, zinc: true, oil: true}), nothing rendered
ViewIdle ==
    /\ visibleSeries = [s \in {"copper", "zinc", "oil"} |-> TRUE]
    /\ correlations = <<>> /\ shownLines = {} /\ lastHandler = "none"

----------------------------------------------------------------------------
(* The merge step applied to drawn payloads *)

MergeInit ==
    /\ \E a, b, c \in 0..MaxPoints :
          /\ a + b + c <= MaxPoints
          /\ copperData \in [1..a -> CopperPoints]
          /\ zincData \in [1..b -> ZincPoints]
          /\ oilData \in [1..c -> OilPoints]
    /\ combinedData = <<>>
    /\ mergePc = "start"

MergeStep ==
    /\ mergePc = "start"
    /\ combinedData' = Merge(copperData, zincData, oilData)
    /\ mergePc' = "done"
    /\ UNCHANGED <<copperData, zincData, oilData, storeVars, normVars, calcVars, corrVars, detectVars, filterVars, dbVars, lmeVars, timerVars, viewVars>>

InitMerge == StoreInit /\ MergeInit /\ NormIdle /\ CalcIdle /\ CorrIdle /\ DetectIdle /\ FilterIdle /\ DbIdle /\ LmeIdle /\ TimerIdle /\ ViewIdle

SpecMerge == InitMerge /\ [][MergeStep]_vars

\* the payload of a source
Payload(src) ==
    CASE src = "copper" -> copperData
      [] src = "zinc" -> zincData
      [] src = "oil" -> oilData

\* points of a source that carry a date
Dated(src) == {i \in 1..Len(Payload(src)) : Has(Payload(src)[i], "date")}

\* the join key of point i of a source
KeyOf(src, i) == normalizeDate(Payload(src)[i].date.s)

AllKeys == UNION {{KeyOf(src, i) : i \in Dated(src)} : src \in Commodities}

RowsOf(rows, d) == {i \in 1..Len(rows) : rows[i].date = d}

OnOrAfterStart(d) == IsIsoDate(d) /\ StrLeq(SeriesStart, d)

StrictlyIncreasingDates(rows) ==
    \A i \in 1..Len(rows) - 1 : StrLess(rows[i].date, rows[i + 1].date)

NoneBeforeStart(rows) ==
    \A i \in 1..Len(rows) : StrLeq(SeriesStart, rows[i].date)

\* every date of the payloads is a calendar date written DD/MM/YYYY or YYYY-MM-DD
CalendarDatesOnly == \A d \in AllKeys : IsIsoDate(d)

\* C1 as stated: for any three payloads the merged table has strictly
\* increasing (hence duplicate-free) dates, none before 2023-01-01.
C1_AnyInputSorted ==
    mergePc = "done" =>
        StrictlyIncreasingDates(combinedData) /\ NoneBeforeStart(combinedData)

\* C1 amended: when every date of the payloads is a calendar date written
\* DD/MM/YYYY or YYYY-MM-DD, the merged table has strictly increasing dates,
\* none before 2023-01-01.
C1_CalendarInputSorted ==
    (mergePc = "done" /\ CalendarDatesOnly) =>
        StrictlyIncreasingDates(combinedData) /\ NoneBeforeStart(combinedData)

\* two rows out of dates given latest first and in both formats, one date
\* before the series start dropped
C1_Witness ==
    /\ mergePc = "done" /\ CalendarDatesOnly
    /\ copperData = <<Pt(D_01_02_2026, V_100), Pt(D_31_12_2022, V_50)>>
    /\ zincData = <<Pt(D_15_01_2026, V_0)>>
    /\ Len(combinedData) = 2

\* the points of a source on join key d
PointsOn(src, d) == {i \in Dated(src) : KeyOf(src, i) = d}

Last(S) == CHOOSE i \in S : \A j \in S : j <= i

\* the row of the merged table on date d, when there is exactly one
RowOn(d) == combinedData[CHOOSE i \in RowsOf(combinedData, d) : TRUE]

\* a point the policy of the merger drops: no date, no value, or a value that
\* is not a number
Malformed(pt) ==
    \/ ~Has(pt, "date")
    \/ ~Has(pt, "value")
    \/ parseFloat(pt.value).k = "nan"

\* the points of a source on date d that the policy keeps
KeptOn(src, d) == {i \in PointsOn(src, d) : ~Malformed(Payload(src)[i])}

\* C2 as stated: a point is skipped exactly when its date or value is absent
\* or its value is not a number. On every date from the series start on, a
\* commodity field is set exactly when the source has a point that is not
\* skipped, to the parsed value of the last such point; a date whose points
\* are all skipped has no row.
C2_SkipsExactlyMalformed ==
    mergePc = "done" =>
        \A d \in {k \in AllKeys : OnOrAfterStart(k)} :
            LET kept == {src \in Commodities : KeptOn(src, d) # {}} IN
            /\ Cardinality(RowsOf(combinedData, d)) = (IF kept = {} THEN 0 ELSE 1)
            /\ kept # {} =>
                 /\ DOMAIN RowOn(d) = {"date"} \cup kept
                 /\ \A src \in kept :
                      RowOn(d)[src] =
                          parseFloat(Payload(src)[Last(KeptOn(src, d))].value)

\* C3 as stated: a date from the series start on that exactly one source
\* carries with a numeric value has a row with that field set to the value and
\* the other two fields absent.
C3_SingleSourceRow ==
    mergePc = "done" =>
        \A d \in {k \in AllKeys : OnOrAfterStart(k)} :
            LET kept == {src \in Commodities : KeptOn(src, d) # {}} IN
            Cardinality(kept) = 1 =>
                /\ Cardinality(RowsOf(combinedData, d)) = 1
                /\ DOMAIN RowOn(d) = {"date"} \cup kept
                /\ \A src \in kept :
                     RowOn(d)[src] =
                         parseFloat(Payload(src)[Last(KeptOn(src, d))].value)

\* the points of a source on date d that the forEach bodies do not pass over
ContributingOn(src, d) ==
    {i \in PointsOn(src, d) : FieldTruthy(Payload(src)[i], "value")}

\* the row on date d carries the value of every contributing source and no
\* key of any other source
JoinedRow(d) ==
    LET from == {src \in Commodities : ContributingOn(src, d) # {}} IN
    /\ Cardinality(RowsOf(combinedData, d)) = 1
    /\ DOMAIN RowOn(d) = {"date"} \cup from
    /\ \A src \in from :
         RowOn(d)[src] =
             parseFloat(Payload(src)[Last(ContributingOn(src, d))].value)

\* the end-to-end scenario of the specification
ScenarioIn ==
    /\ copperData = <<Pt(D_01_02_2026, V_100)>>
    /\ zincData = <<Pt(I_2026_02_01, V_50)>>
    /\ oilData = <<>>

ScenarioOut ==
    combinedData = <<[date |-> I_2026_02_01, copper |-> Num(100), zinc |-> Num(50)]>>

----------------------------------------------------------------------------
(* normalizeDate applied to a drawn string *)

D_04_02_2026 == <<"0", "4", "/", "0", "2", "/", "2", "0", "2", "6">>

I_2026_02_04 == <<"2", "0", "2", "6", "-", "0", "2", "-", "0", "4">>

\* every string over 1, 2, / and - up to the bound, and three dates
NormInputs ==
    SeqsUpTo({"1", "2", "/", "-"}, MaxStrLen) \cup {D_04_02_2026, I_2026_02_04, D_TBD}

NormInit == rawDate \in NormInputs /\ normalized = <<>> /\ normPc = "start"

NormalizeStep ==
    /\ normPc = "start"
    /\ normalized' = normalizeDate(rawDate)
    /\ normPc' = "done"
    /\ UNCHANGED <<rawDate, storeVars, mergeVars, calcVars, corrVars, detectVars, filterVars, dbVars, lmeVars, timerVars, viewVars>>

InitNormalize == StoreInit /\ MergeIdle /\ NormInit /\ CalcIdle /\ CorrIdle /\ DetectIdle /\ FilterIdle /\ DbIdle /\ LmeIdle /\ TimerIdle /\ ViewIdle

SpecNormalize == InitNormalize /\ [][NormalizeStep]_vars

Slashes(s) == {i \in 1..Len(s) : s[i] = "/"}

\* out is the day, month and year of the text in, written year-month-day:
\* in is day/month/year for some strings day, month and year
Reemitted(in, out) ==
    \E i, j \in Slashes(in) :
        /\ i < j
        /\ \A k \in Slashes(in) : k >= i
        /\ out = SubSeq(in, j + 1, Len(in)) \o Dash
                   \o SubSeq(in, i + 1, j - 1) \o Dash
                   \o SubSeq(in, 1, i - 1)

\* C5 as stated: every string containing / comes back as its day, month and
\* year components written year-month-day, every other string unchanged.
C5_EverySlashString ==
    normPc = "done" =>
        /\ Slashes(rawDate) # {} => Reemitted(rawDate, normalized)
        /\ Slashes(rawDate) = {} => normalized = rawDate
        /\ rawDate = D_04_02_2026 => normalized = I_2026_02_04

\* C5 amended: a string of exactly three /-separated components comes back as
\* third-second-first joined by -, a string without / unchanged; with one /
\* the missing third component is written as the text undefined, and with
\* more than two the components after the third are dropped.
C5_ThreeComponents ==
    normPc = "done" =>
        /\ Cardinality(Slashes(rawDate)) = 2 => Reemitted(rawDate, normalized)
        /\ Slashes(rawDate) = {} => normalized = rawDate
        /\ rawDate = D_04_02_2026 => normalized = I_2026_02_04
        /\ Cardinality(Slashes(rawDate)) = 1 =>
             Reemitted(rawDate \o <<"/">> \o UndefinedText, normalized)
        /\ Cardinality(Slashes(rawDate)) > 2 =>
             \E k \in Slashes(rawDate) :
                /\ Cardinality({i \in Slashes(rawDate) : i < k}) = 2
                /\ Reemitted(SubSeq(rawDate, 1, k - 1), normalized)

\* 04/02/2026 has been normalized to 2026-02-04
C5_Witness ==
    normPc = "done" /\ rawDate = D_04_02_2026 /\ normalized = I_2026_02_04

----------------------------------------------------------------------------
(* calculateChartData *)

RawKey(f) ==
    CASE f = "copper" -> "rawCopper" [] f = "zinc" -> "rawZinc" [] f = "oil" -> "rawOil"

PctKey(f) ==
    CASE f = "copper" -> "pctCopper" [] f = "zinc" -> "pctZinc" [] f = "oil" -> "pctOil"

\* item.f used as a condition: undefined, 0 and NaN are falsy
ValueTruthy(item, f) == Has(item, f) /\ NumTruthy(item[f])

\* the base value taken from the last row of the window
Baseline_LastRow(rows, f) ==
    IF ValueTruthy(rows[Len(rows)], f) THEN rows[Len(rows)][f] ELSE Num(1)

\* baseItem?.f || 1 with baseItem = data[0]
Baseline(rows, f) ==
    IF ValueTruthy(rows[1], f) THEN rows[1][f] ELSE Num(1)

\* the percent-change without the test of item.f: undefined gives NaN
PctChange_Unguarded(item, f, base) ==
    IF Has(item, f)
    THEN NumMul(NumDiv(NumSub(item[f], base), base), Num(100))
    ELSE NaN

\* item.f ? ((item.f - base) / base) * 100 : 0
PctChange(item, f, base) ==
    IF ValueTruthy(item, f)
    THEN NumMul(NumDiv(NumSub(item[f], base), base), Num(100))
    ELSE Num(0)

\* the map callback with the raw keys taken from the displayed value
DisplayRow_RawFromShown(item, rows, m) ==
    LET shown == IF m = "indexed" THEN Commodities
                 ELSE {f \in Commodities : Has(item, f)}
        raws  == {RawKey(f) : f \in shown}
        pcts  == {PctKey(f) : f \in Commodities}
        pct(f) == PctChange(item, f, Baseline(rows, f))
        val(f) == IF m = "indexed" THEN NumAdd(Num(100), pct(f)) ELSE item[f]
    IN  [key \in DOMAIN item \cup shown \cup raws \cup pcts |->
            IF key \in Commodities THEN val(key)
            ELSE IF key \in raws
                 THEN val(CHOOSE f \in Commodities : RawKey(f) = key)
            ELSE IF key \in pcts
                 THEN pct(CHOOSE f \in Commodities : PctKey(f) = key)
            ELSE item[key]]

\* the object the map callback returns for item; a key whose value is
\* undefined is left out
DisplayRow(item, rows, m) ==
    LET shown == IF m = "indexed" THEN Commodities
                 ELSE {f \in Commodities : Has(item, f)}
        raws  == {RawKey(f) : f \in {g \in Commodities : Has(item, g)}}
        pcts  == {PctKey(f) : f \in Commodities}
        pct(f) == PctChange(item, f, Baseline(rows, f))
    IN  [key \in DOMAIN item \cup shown \cup raws \cup pcts |->
            IF key \in Commodities
            THEN (IF m = "indexed" THEN NumAdd(Num(100), pct(key)) ELSE item[key])
            ELSE IF key \in raws
                 THEN item[CHOOSE f \in Commodities : RawKey(f) = key]
            ELSE IF key \in pcts
                 THEN pct(CHOOSE f \in Commodities : PctKey(f) = key)
            ELSE item[key]]

calculateChartData(rows, m) ==
    IF Len(rows) = 0 THEN <<>>
    ELSE [i \in 1..Len(rows) |-> DisplayRow(rows[i], rows, m)]

----------------------------------------------------------------------------
(* calculateChartData applied to a drawn window *)

\* dates of the rows of a window, in table order
WindowDates == <<I_2026_01_15, I_2026_02_01, I_2026_02_04, T_2026_02_01>>

CopperValues == {Num(0), Num(100), Num(150), NaN, Inf(1)}

ZincValues == {Num(50)}

OilValues == {Num(0), Num(70)}

\* a row with the fields of pick that are not "none"
RowOf(date, pick) ==
    [key \in {"date"} \cup {f \in Commodities : pick[f] # <<>>} |->
        IF key = "date" THEN date ELSE pick[key][1]]

Picks ==
    [copper : {<<>>} \cup {<<v>> : v \in CopperValues},
     zinc : {<<>>} \cup {<<v>> : v \in ZincValues},
     oil : {<<>>} \cup {<<v>> : v \in OilValues}]

\* the windows of n rows: ascending dates, one set of fields per row
Windows(n) == {[i \in 1..n |-> RowOf(WindowDates[i], ps[i])] : ps \in [1..n -> Picks]}

CalcInit ==
    /\ filteredChartData \in UNION {Windows(n) : n \in 0..MaxRows}
    /\ displayMode \in {"absolute", "indexed"}
    /\ displayData = <<>>
    /\ calcPc = "start"

CalcStep ==
    /\ calcPc = "start"
    /\ displayData' = calculateChartData(filteredChartData, displayMode)
    /\ calcPc' = "done"
    /\ UNCHANGED <<filteredChartData, displayMode, storeVars, mergeVars, normVars, corrVars, detectVars, filterVars, dbVars, lmeVars, timerVars, viewVars>>

InitCalc == StoreInit /\ MergeIdle /\ NormIdle /\ CalcInit /\ CorrIdle /\ DetectIdle /\ FilterIdle /\ DbIdle /\ LmeIdle /\ TimerIdle /\ ViewIdle

SpecCalc == InitCalc /\ [][CalcStep]_vars

\* every commodity value of the window is a finite number
FiniteWindow ==
    \A i \in 1..Len(filteredChartData) : \A f \in Commodities :
        Has(filteredChartData[i], f) => filteredChartData[i][f].k = "fin"

\* C9 as stated, on windows of finite values: per commodity the baseline is
\* the first row's value (1 when the first row has none), and a row's
\* percent-change is (value - baseline) / baseline * 100 when the row has a
\* value, 0 included, and 0 when it has none.
C9_PctOfEveryValue ==
    calcPc = "done" /\ FiniteWindow =>
        \A i \in 1..Len(filteredChartData) : \A f \in Commodities :
            LET first == filteredChartData[1]
                row   == filteredChartData[i]
                base  == IF Has(first, f) THEN first[f] ELSE Num(1)
            IN  displayData[i][PctKey(f)] =
                    (IF Has(row, f)
                     THEN NumMul(NumDiv(NumSub(row[f], base), base), Num(100))
                     ELSE Num(0))

\* C10 as stated: in indexed mode the first output row shows 100 and
\* percent-change 0 for every commodity present on the first row; an empty
\* window gives an empty result; a one-row window has percent-change 0 for
\* every present commodity.
C10_FirstRowIs100 ==
    calcPc = "done" =>
        /\ Len(filteredChartData) = 0 => displayData = <<>>
        /\ Len(filteredChartData) > 0 =>
             /\ Len(displayData) = Len(filteredChartData)
             /\ \A f \in {g \in Commodities : Has(filteredChartData[1], g)} :
                  /\ displayMode = "indexed" => displayData[1][f] = Num(100)
                  /\ displayMode = "indexed" \/ Len(filteredChartData) = 1 =>
                        displayData[1][PctKey(f)] = Num(0)

\* C10 amended: the same for every commodity whose value on the first row is
\* not an infinity (parseFloat reads "Infinity" as one; its percent-change
\* and indexed value are NaN).
C10_FiniteFirstRowIs100 ==
    calcPc = "done" =>
        /\ Len(filteredChartData) = 0 => displayData = <<>>
        /\ Len(filteredChartData) > 0 =>
             /\ Len(displayData) = Len(filteredChartData)
             /\ \A f \in {g \in Commodities : Has(filteredChartData[1], g)} :
                  IF filteredChartData[1][f].k = "inf"
                  THEN displayData[1][PctKey(f)] = NaN
                  ELSE /\ displayMode = "indexed" => displayData[1][f] = Num(100)
                       /\ displayMode = "indexed" \/ Len(filteredChartData) = 1 =>
                             displayData[1][PctKey(f)] = Num(0)

\* an indexed window of two rows whose first row has copper = 100 and whose
\* second row differs
C10_Witness ==
    /\ calcPc = "done" /\ displayMode = "indexed"
    /\ Len(filteredChartData) = 2
    /\ Has(filteredChartData[1], "copper") /\ filteredChartData[1].copper = Num(100)
    /\ Has(filteredChartData[2], "copper") /\ filteredChartData[2].copper = Num(150)
    /\ displayData[1].copper = Num(100) /\ displayData[1].pctCopper = Num(0)
    /\ displayData[2].copper = Num(150)

----------------------------------------------------------------------------
(* commoditySlice: the reducers, on the record of state.commodity *)

State ==
    [chartData |-> chartData, loading |-> loading, error |-> error,
     dataSource |-> dataSource]

Commit(s) ==
    /\ chartData' = s.chartData
    /\ loading' = s.loading
    /\ error' = s.error
    /\ dataSource' = s.dataSource

clearError(s) == [s EXCEPT !.error = Null]

fetchFreshData_pending(s) == [s EXCEPT !.loading = TRUE, !.error = Null]

fetchFreshData_fulfilled(s, payload) ==
    [s EXCEPT !.loading = FALSE, !.chartData = payload,
              !.dataSource = "fresh", !.error = Null]

\* the rejected reducer dropping the table as well
fetchFreshData_rejected_ClearsTable(s, payload) ==
    [s EXCEPT !.loading = FALSE, !.error = payload, !.chartData = <<>>]

fetchFreshData_rejected(s, payload) ==
    [s EXCEPT !.loading = FALSE, !.error = payload]

loadFromDatabase_pending(s) == [s EXCEPT !.loading = TRUE, !.error = Null]

loadFromDatabase_fulfilled(s, payload) ==
    [s EXCEPT !.loading = FALSE, !.chartData = payload,
              !.dataSource = "database", !.error = Null]

loadFromDatabase_rejected(s, payload) ==
    [s EXCEPT !.loading = FALSE, !.error = payload]

\* error.message of the throw on a non-2xx response of fetchFreshData
FailedSourcesMessage == "Failed to fetch one or more data sources"

\* error.message of a fetch() that rejects
NetworkMessage == "Failed to fetch"

\* error.message of the throw on a non-2xx response of loadFromDatabase
HttpStatusMessage == "HTTP 500: Internal Server Error"

----------------------------------------------------------------------------
(* handleFetchFresh: the change detection against prevData *)

\* p.f !== d.f, an absent field being undefined
FieldDiffers(p, d, f) ==
    IF Has(p, f) /\ Has(d, f) THEN ~NumStrictEq(p[f], d[f])
    ELSE Has(p, f) # Has(d, f)

HasDate(rows, date) == \E i \in 1..Len(rows) : rows[i].date = date

\* new Map(prevData.map(d => [d.date, d])).get(date): the last row wins
PrevRow(prev, date) ==
    prev[CHOOSE i \in 1..Len(prev) :
            /\ prev[i].date = date
            /\ \A j \in 1..Len(prev) : prev[j].date = date => j <= i]

\* the rows left in table order
Reverse_TableOrder(s) == s

Reverse(s) == [i \in 1..Len(s) |-> s[Len(s) + 1 - i]]

\* the rows without the cut
FirstN_All(s, n) == s

FirstN(s, n) == SubSeq(s, 1, IF Len(s) < n THEN Len(s) ELSE n)

\* the rows of either table whose date the other lacks
NewEntries_EitherSide(prev, new) ==
    SelectSeq(new, LAMBDA d : ~HasDate(prev, d.date))
        \o SelectSeq(prev, LAMBDA d : ~HasDate(new, d.date))

NewEntries(prev, new) == SelectSeq(new, LAMBDA d : ~HasDate(prev, d.date))

\* rows of new, newest first, whose date is in prev with another value
UpdatedRows(prev, new) ==
    SelectSeq(Reverse(new),
              LAMBDA d : /\ HasDate(prev, d.date)
                         /\ \E f \in Commodities : FieldDiffers(PrevRow(prev, d.date), d, f))

\* the update lines pushed before the addition lines
DetectChanges_UpdatesFirst(prev, new) ==
    LET newEntries   == NewEntries(prev, new)
        updated      == UpdatedRows(prev, new)
        updatesCount == Len(updated)
        shownNew     == FirstN(newEntries, 3)
        shownUpd     == FirstN(updated, 3)
        additions ==
            IF Len(newEntries) > 0
            THEN <<[line |-> "Added", n |-> Len(newEntries)]>>
                 \o [i \in 1..Len(shownNew) |-> [line |-> "New", row |-> shownNew[i]]]
                 \o (IF Len(newEntries) > 3
                     THEN <<[line |-> "more", n |-> Len(newEntries) - 3]>>
                     ELSE <<>>)
            ELSE <<>>
        updates ==
            IF updatesCount > 0
            THEN <<[line |-> "Updated", n |-> updatesCount]>>
                 \o [i \in 1..Len(shownUpd) |-> [line |-> "Update", date |-> shownUpd[i].date]]
                 \o (IF updatesCount > 3
                     THEN <<[line |-> "more updates", n |-> updatesCount - 3]>>
                     ELSE <<>>)
            ELSE <<>>
    IN  updates \o additions

\* the strings pushed to changes, each kept as a record of its parts
DetectChanges(prev, new) ==
    LET newEntries   == NewEntries(prev, new)
        updated      == UpdatedRows(prev, new)
        updatesCount == Len(updated)
        shownNew     == FirstN(newEntries, 3)
        shownUpd     == FirstN(updated, 3)
        additions ==
            IF Len(newEntries) > 0
            THEN <<[line |-> "Added", n |-> Len(newEntries)]>>
                 \o [i \in 1..Len(shownNew) |-> [line |-> "New", row |-> shownNew[i]]]
                 \o (IF Len(newEntries) > 3
                     THEN <<[line |-> "more", n |-> Len(newEntries) - 3]>>
                     ELSE <<>>)
            ELSE <<>>
        updates ==
            IF updatesCount > 0
            THEN <<[line |-> "Updated", n |-> updatesCount]>>
                 \o [i \in 1..Len(shownUpd) |-> [line |-> "Update", date |-> shownUpd[i].date]]
                 \o (IF updatesCount > 3
                     THEN <<[line |-> "more updates", n |-> updatesCount - 3]>>
                     ELSE <<>>)
            ELSE <<>>
    IN  additions \o updates

\* body of the POST to /api/logs/change
ChangeRecord(prev, new) ==
    [summary |-> [new |-> Len(NewEntries(prev, new)),
                  updated |-> Len(UpdatedRows(prev, new))],
     details |-> DetectChanges(prev, new)]

----------------------------------------------------------------------------
(* The dashboard on the store *)

\* tables GET /api/db/chart-data answers with
TableA == <<[date |-> I_2026_01_15, copper |-> Num(100)]>>

TableB ==
    <<[date |-> I_2026_01_15, copper |-> Num(100)],
      [date |-> I_2026_02_01, copper |-> Num(150), zinc |-> Num(50)]>>

DBTables == {TableA, TableB}

\* payloads the three upstream sources answer with
FetchPayloads ==
    { <<<<Pt(D_01_02_2026, V_100)>>, <<Pt(I_2026_02_01, V_50)>>, <<>>>>,
      <<<<Pt(D_15_01_2026, V_100), Pt(D_01_02_2026, V_100)>>,
        <<Pt(I_2026_02_01, V_50)>>,
        <<Pt(I_2026_02_01, V_70)>>>> }

\* runs of the mount effect: one, or two under reactStrictMode
MountEffectRuns == {1, 2}

PendingFetches == {i \in 1..Len(thunks) : thunks[i].kind = "fetch"}

PendingLoads == {i \in 1..Len(thunks) : thunks[i].kind = "load"}

Remove(s, i) == SubSeq(s, 1, i - 1) \o SubSeq(s, i + 1, Len(s))

UnchangedHarness == UNCHANGED <<mergeVars, normVars, calcVars, corrVars, detectVars, filterVars, dbVars, lmeVars, viewVars>>

\* setInterval(..., 5 * 60 * 1000), in minutes
IntervalMinutes == 5

\* the auto-fetch effect has [loading] as dependencies: a render with another
\* loading clears the interval and arms a new one
TimerKeeps ==
    /\ sinceArmed' = IF loading' # loading THEN 0 ELSE sinceArmed
    /\ sinceTick' = sinceTick

\* useEffect(() => { dispatch(loadFromDatabase()); dispatch(setShowChart(true)) })
MountEffect ==
    /\ ~mounted
    /\ mounted' = TRUE
    /\ \E runs \in MountEffectRuns :
          /\ thunks' = thunks \o [i \in 1..runs |-> [kind |-> "load"]]
          /\ Commit(loadFromDatabase_pending(State))
    /\ showChart' = TRUE
    /\ sinceArmed' = 0 /\ sinceTick' = 0
    /\ UNCHANGED <<fetches, lastResult, changeLog, showChangeLog, postedLogs>>
    /\ UnchangedHarness

\* handleFetchFresh up to its await: clearError, prevData, the pending reducer
StartFetch ==
    /\ fetches < MaxFetches
    /\ fetches' = fetches + 1
    /\ thunks' = Append(thunks, [kind |-> "fetch", prevData |-> chartData])
    /\ Commit(fetchFreshData_pending(clearError(State)))
    /\ UNCHANGED <<showChart, mounted, lastResult, changeLog, showChangeLog, postedLogs>>
    /\ UnchangedHarness

\* the Update Market Data button, disabled={loading}
ClickUpdate == mounted /\ ~loading /\ StartFetch /\ TimerKeeps

\* the callback of the 5-minute interval: if (!loading) fetchRef.current();
\* the interval goes on, or is armed anew when the fetch changes loading
TimerTick ==
    /\ mounted /\ sinceArmed = IntervalMinutes
    /\ sinceArmed' = 0 /\ sinceTick' = 0
    /\ IF ~loading THEN StartFetch
       ELSE UNCHANGED storeVars /\ UnchangedHarness

\* a minute passes without the interval being due
MinutePasses ==
    /\ mounted /\ sinceArmed < IntervalMinutes /\ sinceTick < MaxWait
    /\ sinceArmed' = sinceArmed + 1
    /\ sinceTick' = sinceTick + 1
    /\ UNCHANGED storeVars /\ UnchangedHarness

\* the record posted whether or not there are changes
AfterFulfilled_AlwaysPosts(prevData, newData) ==
    LET changes == DetectChanges(prevData, newData) IN
    /\ showChart' = TRUE
    /\ IF Len(changes) > 0
       THEN /\ changeLog' = changes
            /\ showChangeLog' = TRUE
            /\ postedLogs' = Append(postedLogs, ChangeRecord(prevData, newData))
       ELSE /\ postedLogs' = Append(postedLogs, ChangeRecord(prevData, newData))
            /\ UNCHANGED <<changeLog, showChangeLog>>

\* handleFetchFresh after its await, for a fulfilled result
AfterFulfilled(prevData, newData) ==
    LET changes == DetectChanges(prevData, newData) IN
    /\ showChart' = TRUE
    /\ IF Len(changes) > 0
       THEN /\ changeLog' = changes
            /\ showChangeLog' = TRUE
            /\ postedLogs' = Append(postedLogs, ChangeRecord(prevData, newData))
       ELSE UNCHANGED <<changeLog, showChangeLog, postedLogs>>

\* the three responses are ok: the merge, the fulfilled reducer, then the
\* rest of handleFetchFresh
FetchFulfilled(i) ==
    /\ i \in PendingFetches
    /\ \E p \in FetchPayloads :
          LET newData == Merge(p[1], p[2], p[3]) IN
          /\ Commit(fetchFreshData_fulfilled(State, newData))
          /\ lastResult' = [type |-> "fulfilled", payload |-> newData]
          /\ AfterFulfilled(thunks[i].prevData, newData)
    /\ thunks' = Remove(thunks, i)
    /\ UNCHANGED <<mounted, fetches>>
    /\ UnchangedHarness
    /\ TimerKeeps

\* what the catch block hands to rejectWithValue for the outcomes of the
\* three fetches: a rejected fetch() ends Promise.all, otherwise a non-2xx
\* response throws
RejectionMessage(outcome) ==
    IF \E src \in Commodities : outcome[src] = "rejects" THEN NetworkMessage
    ELSE FailedSourcesMessage

\* one of the three fetches rejects or answers non-2xx: the rejected reducer;
\* handleFetchFresh does nothing further
FetchRejected(i) ==
    /\ i \in PendingFetches
    /\ \E outcome \in [Commodities -> {"ok", "non2xx", "rejects"}] :
          /\ \E src \in Commodities : outcome[src] # "ok"
          /\ Commit(fetchFreshData_rejected(State, RejectionMessage(outcome)))
          /\ lastResult' = [type |-> "rejected", payload |-> RejectionMessage(outcome)]
    /\ thunks' = Remove(thunks, i)
    /\ UNCHANGED <<showChart, mounted, fetches, changeLog, showChangeLog, postedLogs>>
    /\ UnchangedHarness
    /\ TimerKeeps

LoadFulfilled(i) ==
    /\ i \in PendingLoads
    /\ \E table \in DBTables : Commit(loadFromDatabase_fulfilled(State, table))
    /\ thunks' = Remove(thunks, i)
    /\ UNCHANGED <<showChart, mounted, fetches, lastResult, changeLog,
                   showChangeLog, postedLogs>>
    /\ UnchangedHarness
    /\ TimerKeeps

LoadRejected(i) ==
    /\ i \in PendingLoads
    /\ \E msg \in {HttpStatusMessage, NetworkMessage} :
          Commit(loadFromDatabase_rejected(State, msg))
    /\ thunks' = Remove(thunks, i)
    /\ UNCHANGED <<showChart, mounted, fetches, lastResult, changeLog,
                   showChangeLog, postedLogs>>
    /\ UnchangedHarness
    /\ TimerKeeps

\* useEffect(() => { if (error) { toast.error(error); dispatch(clearError()) } })
ErrorEffect ==
    /\ mounted /\ error # Null
    /\ Commit(clearError(State))
    /\ UNCHANGED <<showChart, thunks, mounted, fetches, lastResult, changeLog,
                   showChangeLog, postedLogs>>
    /\ UnchangedHarness
    /\ TimerKeeps

\* onClose of the change log modal
CloseChangeLog ==
    /\ showChangeLog
    /\ showChangeLog' = FALSE
    /\ UNCHANGED <<chartData, loading, error, dataSource, showChart, thunks,
                   mounted, fetches, lastResult, changeLog, postedLogs>>
    /\ UnchangedHarness
    /\ TimerKeeps

Next ==
    \/ MountEffect
    \/ ClickUpdate
    \/ TimerTick
    \/ MinutePasses
    \/ \E i \in 1..Len(thunks) : FetchFulfilled(i)
    \/ \E i \in 1..Len(thunks) : FetchRejected(i)
    \/ \E i \in 1..Len(thunks) : LoadFulfilled(i)
    \/ \E i \in 1..Len(thunks) : LoadRejected(i)
    \/ ErrorEffect
    \/ CloseChangeLog

Init == StoreInit /\ MergeIdle /\ NormIdle /\ CalcIdle /\ CorrIdle /\ DetectIdle /\ FilterIdle /\ DbIdle /\ LmeIdle /\ TimerIdle /\ ViewIdle

Spec == Init /\ [][Next]_vars

C7_OneFetchInFlight == Cardinality(PendingFetches) <= 1

\* C8 as stated: the prevData a cycle diffs against is the chartData its
\* fulfilled result replaces.
C8_PrevDataIsReplaced ==
    [][\A i \in 1..Len(thunks) :
          FetchFulfilled(i) => thunks[i].prevData = chartData]_vars

----------------------------------------------------------------------------
(* calculateChartData: what a row keeps *)

\* C11: the output row at each position has the input row's date, carries
\* the input's copper, zinc and oil under rawCopper, rawZinc and rawOil
\* (absent stays absent), has the same pctCopper, pctZinc and pctOil in both
\* modes, and shows the raw value in absolute mode and 100 + percent-change
\* in indexed mode.
C11_RowFrame ==
    calcPc = "done" =>
        /\ Len(displayData) = Len(filteredChartData)
        /\ \A i \in 1..Len(filteredChartData) :
             LET item  == filteredChartData[i]
                 out   == displayData[i]
                 other == calculateChartData(filteredChartData,
                              IF displayMode = "indexed" THEN "absolute"
                              ELSE "indexed")[i]
             IN  /\ out.date = item.date
                 /\ \A f \in Commodities :
                      /\ Has(out, RawKey(f)) = Has(item, f)
                      /\ Has(item, f) => out[RawKey(f)] = item[f]
                      /\ Has(out, PctKey(f)) /\ out[PctKey(f)] = other[PctKey(f)]
                      /\ displayMode = "absolute" =>
                            /\ Has(out, f) = Has(item, f)
                            /\ Has(item, f) => out[f] = item[f]
                      /\ displayMode = "indexed" =>
                            Has(out, f) /\ out[f] = NumAdd(Num(100), out[PctKey(f)])

\* an indexed window whose second row moved from 100 to 150 in copper and has
\* no zinc: the raw value is kept beside the indexed one
C11_Witness ==
    /\ calcPc = "done" /\ displayMode = "indexed"
    /\ Len(filteredChartData) = 2
    /\ Has(filteredChartData[1], "copper") /\ filteredChartData[1].copper = Num(100)
    /\ Has(filteredChartData[1], "oil") /\ filteredChartData[1].oil = Num(70)
    /\ Has(filteredChartData[2], "copper") /\ filteredChartData[2].copper = Num(150)
    /\ ~Has(filteredChartData[2], "zinc") /\ ~Has(filteredChartData[2], "oil")
    /\ displayData[2].rawCopper = Num(150) /\ displayData[2].pctCopper = Num(50)
    /\ ~Has(displayData[2], "rawOil") /\ displayData[2].oil = Num(100)

----------------------------------------------------------------------------
(* calculateCorrelation *)

\* slice(-30)
CorrelationWindow == 30

\* validData.length < 5
MinCorrelationRows == 5

\* d[key1] != null && d[key2] != null
BothPresent(d, key1, key2) == Has(d, key1) /\ Has(d, key2)

\* s.slice(0, n)
LastRows_FromStart(s, n) == IF Len(s) <= n THEN s ELSE SubSeq(s, 1, n)

\* s.slice(-n)
LastRows(s, n) == IF Len(s) <= n THEN s ELSE SubSeq(s, Len(s) - n + 1, Len(s))

RECURSIVE SumFrom(_, _)
\* s.reduce((a, b) => a + b, acc)
SumFrom(acc, s) ==
    IF s = <<>> THEN acc ELSE SumFrom(NumAdd(acc, Head(s)), Tail(s))

\* Math.sqrt(r) === 0
SqrtIsZero(r) == IsZero(r)

\* a / r, the square root left out
DivideBySqrt_NoRoot(a, r) == NumDiv(a, r)

\* a / Math.sqrt(r). A finite quotient other than 0, 1 and -1 is kept as
\* [k |-> "root", n |-> s * p, d |-> q], the number s * sqrt(p / q) with
\* s its sign and p / q in lowest terms.
DivideBySqrt(a, r) ==
    IF a.k = "nan" \/ r.k = "nan" THEN NaN
    ELSE IF r.k = "inf" THEN (IF r.n = 1 THEN NumDiv(a, Inf(1)) ELSE NaN)
    ELSE IF r.n < 0 THEN NaN
    ELSE IF IsZero(r) THEN NumDiv(a, Num(0))
    ELSE IF a.k = "inf" THEN a
    ELSE IF IsZero(a) THEN Num(0)
    ELSE LET sq == Fin(a.n * a.n * r.d, a.d * a.d * r.n) IN
         IF sq = Num(1) THEN Num(Sign(a.n))
         ELSE [k |-> "root", n |-> Sign(a.n) * sq.n, d |-> sq.d]

calculateCorrelation(data, key1, key2) ==
    LET validData == LastRows(SelectSeq(data, LAMBDA d : BothPresent(d, key1, key2)),
                              CorrelationWindow)
    IN  IF Len(validData) < MinCorrelationRows THEN Num(0)
        ELSE
        LET x     == [i \in 1..Len(validData) |-> validData[i][key1]]
            y     == [i \in 1..Len(validData) |-> validData[i][key2]]
            n     == Num(Len(x))
            sumX  == SumFrom(Num(0), x)
            sumY  == SumFrom(Num(0), y)
            sumXY == SumFrom(Num(0), [i \in 1..Len(x) |-> NumMul(x[i], y[i])])
            sumX2 == SumFrom(Num(0), [i \in 1..Len(x) |-> NumMul(x[i], x[i])])
            sumY2 == SumFrom(Num(0), [i \in 1..Len(y) |-> NumMul(y[i], y[i])])
            numerator == NumSub(NumMul(n, sumXY), NumMul(sumX, sumY))
            radicand  == NumMul(NumSub(NumMul(n, sumX2), NumMul(sumX, sumX)),
                                NumSub(NumMul(n, sumY2), NumMul(sumY, sumY)))
        IN  IF SqrtIsZero(radicand) THEN Num(0)
            ELSE DivideBySqrt(numerator, radicand)

----------------------------------------------------------------------------
(* calculateCorrelation applied to a drawn table *)

\* the pairs of keys the dashboard correlates
KeyPairs == {<<"copper", "oil">>, <<"zinc", "oil">>, <<"copper", "zinc">>}

DigitChar(n) ==
    CASE n = 0 -> "0" [] n = 1 -> "1" [] n = 2 -> "2" [] n = 3 -> "3"
      [] n = 4 -> "4" [] n = 5 -> "5" [] n = 6 -> "6" [] n = 7 -> "7"
      [] n = 8 -> "8" [] n = 9 -> "9"

\* the date of row i of the table: consecutive days from 2026-01-01, 28 to
\* the month
CorrDate(i) ==
    LET month == ((i - 1) \div 28) + 1
        day   == ((i - 1) % 28) + 1
    IN  <<"2", "0", "2", "6", "-", "0", DigitChar(month), "-",
          DigitChar(day \div 10), DigitChar(day % 10)>>

\* a cell of a column: <<>> for an absent field, <<v>> for the value v
FirstCells == {<<>>, <<Num(1)>>, <<Num(2)>>}

SecondCells == {<<Num(1)>>, <<Num(2)>>}

\* the value the second column has on the leading rows of the table, and on
\* how many
LeadValues == {Num(9), NaN}

Leads == {[len |-> 0, value |-> Num(9)]} \cup [len : 1..2, value : LeadValues]

\* lengths of the drawn tables: around the minimum and around the window
RowCounts == (0..7) \cup (29..MaxCorrRows)

Patterns(cells) ==
    UNION {[1..len -> cells] : len \in 1..MaxPeriod}

Repeated(pattern, i) == pattern[((i - 1) % Len(pattern)) + 1]

CorrRow(i, keys, first, second) ==
    [key \in {"date"} \cup (IF first # <<>> THEN {keys[1]} ELSE {})
                      \cup (IF second # <<>> THEN {keys[2]} ELSE {}) |->
        IF key = "date" THEN CorrDate(i)
        ELSE IF key = keys[1] THEN first[1] ELSE second[1]]

CorrTable(n, keys, xs, ys, lead) ==
    [i \in 1..n |->
        CorrRow(i, keys, Repeated(xs, i),
                IF i <= lead.len THEN <<lead.value>> ELSE Repeated(ys, i))]

CorrInit ==
    /\ corrKeys \in KeyPairs
    /\ \E n \in RowCounts, xs \in Patterns(FirstCells),
          ys \in Patterns(SecondCells), lead \in Leads :
          corrData = CorrTable(n, corrKeys, xs, ys, lead)
    /\ correlation = Num(0)
    /\ corrPc = "start"

CorrStep ==
    /\ corrPc = "start"
    /\ correlation' = calculateCorrelation(corrData, corrKeys[1], corrKeys[2])
    /\ corrPc' = "done"
    /\ UNCHANGED <<corrData, corrKeys, storeVars, mergeVars, normVars, calcVars, detectVars, filterVars, dbVars, lmeVars, timerVars, viewVars>>

InitCorr == StoreInit /\ MergeIdle /\ NormIdle /\ CalcIdle /\ CorrInit /\ DetectIdle /\ FilterIdle /\ DbIdle /\ LmeIdle /\ TimerIdle /\ ViewIdle

SpecCorr == InitCorr /\ [][CorrStep]_vars

\* the rows of the table in which both keys are present
Qualifying ==
    SelectSeq(corrData, LAMBDA d : Has(d, corrKeys[1]) /\ Has(d, corrKeys[2]))

\* the last 30 of them, in table order
QualifyingTail ==
    IF Len(Qualifying) <= 30 THEN Qualifying
    ELSE SubSeq(Qualifying, Len(Qualifying) - 29, Len(Qualifying))

\* C12: the result is that of the last 30 rows in which both keys are
\* present, whatever the other rows hold, and it is 0 when fewer than 5 rows
\* have both keys.
C12_LastThirtyQualifying ==
    corrPc = "done" =>
        /\ correlation = calculateCorrelation(QualifyingTail, corrKeys[1], corrKeys[2])
        /\ Len(Qualifying) < 5 => correlation = Num(0)

\* 32 rows with both keys, the second column 9 on the first two and then
\* following the first: the two leading rows are outside the window and the
\* result is 1
C12_Witness ==
    /\ corrPc = "done"
    /\ Len(corrData) = 32 /\ Len(Qualifying) = 32
    /\ corrData[1][corrKeys[2]] = Num(9) /\ corrData[2][corrKeys[2]] = Num(9)
    /\ corrData[1][corrKeys[1]] = Num(1) /\ corrData[2][corrKeys[1]] = Num(2)
    /\ correlation = Num(1)

\* a number from -1 to 1
InUnitRange(r) == r.k \in {"fin", "root"} /\ Abs(r.n) <= r.d

\* C13 as stated: for any table the result is a number in [-1, 1], and 0
\* rather than NaN or an infinity when the denominator is zero.
C13_ResultInUnitRange == corrPc = "done" => InUnitRange(correlation)

\* both columns of the window hold the same finite values, not all equal
IdenticalSeries ==
    /\ Len(QualifyingTail) >= 5
    /\ \A i \in 1..Len(QualifyingTail) :
          /\ QualifyingTail[i][corrKeys[1]].k = "fin"
          /\ QualifyingTail[i][corrKeys[1]] = QualifyingTail[i][corrKeys[2]]
    /\ \E i, j \in 1..Len(QualifyingTail) :
          QualifyingTail[i][corrKeys[1]] # QualifyingTail[j][corrKeys[1]]

----------------------------------------------------------------------------
(* handleFetchFresh after its await, applied to drawn tables *)

\* the commodity fields a table can hold on a date; <<>> for no row
PrevCells ==
    {<<>>, <<[copper |-> Num(100)]>>, <<[copper |-> Num(100), zinc |-> Num(50)]>>}

NewCells ==
    {<<>>, <<[copper |-> Num(100)]>>, <<[copper |-> Num(105), oil |-> Num(70)]>>}

\* the table with a row on each date that has a cell, in date order
RECURSIVE TableOf(_, _)
TableOf(cells, i) ==
    IF i > Len(cells) THEN <<>>
    ELSE (IF cells[i] = <<>> THEN <<>>
          ELSE <<[key \in {"date"} \cup DOMAIN cells[i][1] |->
                     IF key = "date" THEN CorrDate(i) ELSE cells[i][1][key]]>>)
         \o TableOf(cells, i + 1)

DetectInit ==
    /\ \E n \in 0..MaxChangeDates :
          /\ detectPrev \in {TableOf(cells, 1) : cells \in [1..n -> PrevCells]}
          /\ detectNew \in {TableOf(cells, 1) : cells \in [1..n -> NewCells]}
    /\ detectPc = "start"

DetectStep ==
    /\ detectPc = "start"
    /\ AfterFulfilled(detectPrev, detectNew)
    /\ detectPc' = "done"
    /\ UNCHANGED <<detectPrev, detectNew, chartData, loading, error, dataSource,
                   thunks, mounted, fetches, lastResult>>
    /\ UNCHANGED <<mergeVars, normVars, calcVars, corrVars, filterVars, dbVars, lmeVars, timerVars, viewVars>>

InitDetect == StoreInit /\ MergeIdle /\ NormIdle /\ CalcIdle /\ CorrIdle /\ DetectInit /\ FilterIdle /\ DbIdle /\ LmeIdle /\ TimerIdle /\ ViewIdle

SpecDetect == InitDetect /\ [][DetectStep]_vars

\* the dates of a table
DatesOf(rows) == {rows[i].date : i \in 1..Len(rows)}

\* the rows of the new table on dates the previous table does not have
Additions == SelectSeq(detectNew, LAMBDA d : d.date \notin DatesOf(detectPrev))

\* the lines of the change log of the given kinds, in order
LinesOf(kinds) == SelectSeq(changeLog, LAMBDA c : c.line \in kinds)

Min(a, b) == IF a < b THEN a ELSE b

\* C15: the addition count is the number of rows of the new table whose date
\* the previous table lacks; the first 3 of them are listed once each, in
\* table order, with their date and commodity values; the "...and N more"
\* line is there exactly when there are more than 3, with N = additions - 3.
C15_AdditionsReported ==
    detectPc = "done" =>
        LET added == LinesOf({"Added"})
            shown == LinesOf({"New"})
            more  == LinesOf({"more"})
        IN  /\ Len(Additions) = 0 => added = <<>> /\ shown = <<>> /\ more = <<>>
            /\ Len(Additions) > 0 =>
                 /\ changeLog[1] = [line |-> "Added", n |-> Len(Additions)]
                 /\ Len(added) = 1
                 /\ Len(shown) = Min(Len(Additions), 3)
                 /\ \A k \in 1..Len(shown) :
                       changeLog[1 + k] = [line |-> "New", row |-> Additions[k]]
                 /\ IF Len(Additions) > 3
                    THEN /\ more = <<[line |-> "more", n |-> Len(Additions) - 3]>>
                         /\ changeLog[5] = more[1]
                    ELSE more = <<>>

\* four new dates: three are listed and one more is announced
C15_Witness ==
    /\ detectPc = "done"
    /\ detectPrev = <<>> /\ Len(detectNew) = 4
    /\ Len(changeLog) = 5
    /\ changeLog[1] = [line |-> "Added", n |-> 4]
    /\ changeLog[2] = [line |-> "New", row |-> detectNew[1]]
    /\ changeLog[5] = [line |-> "more", n |-> 1]

\* the row of a table on a date
RowAt(rows, date) == rows[CHOOSE i \in 1..Len(rows) : rows[i].date = date]

\* the dates on which both tables have a row and the rows differ in copper,
\* zinc or oil, a field on one row only included
UpdatedDates ==
    {date \in DatesOf(detectPrev) \cap DatesOf(detectNew) :
        \E f \in Commodities :
            LET p == RowAt(detectPrev, date)
                d == RowAt(detectNew, date)
            IN  \/ Has(p, f) # Has(d, f)
                \/ Has(p, f) /\ Has(d, f) /\ p[f] # d[f]}

\* the dates of a set, latest first
RECURSIVE LatestFirst(_)
LatestFirst(dates) ==
    IF dates = {} THEN <<>>
    ELSE LET latest == CHOOSE d \in dates : \A e \in dates : StrLeq(e, d)
         IN  <<latest>> \o LatestFirst(dates \ {latest})

C17_RecordOnlyForChanges ==
    detectPc = "done" =>
        LET changes == DetectChanges(detectPrev, detectNew) IN
        /\ (changes = <<>>) <=> (Len(Additions) = 0 /\ UpdatedDates = {})
        /\ changeLog = changes
        /\ IF changes = <<>> THEN postedLogs = <<>> /\ ~showChangeLog
           ELSE /\ showChangeLog
                /\ postedLogs = <<[summary |-> [new |-> Len(Additions),
                                                updated |-> Cardinality(UpdatedDates)],
                                   details |-> changes]>>

\* a cycle whose new table equals the previous, non-empty one: nothing is
\* detected and nothing is posted
C17_Witness ==
    /\ detectPc = "done"
    /\ Len(detectPrev) = 2 /\ detectNew = detectPrev
    /\ changeLog = <<>> /\ postedLogs = <<>> /\ ~showChangeLog /\ showChart

----------------------------------------------------------------------------
(* filteredChartData *)

\* the civil date of a day counted from 1970-01-01
CivilFromDays(days) ==
    LET z   == days + 719468
        era == z \div 146097
        doe == z - era * 146097
        yoe == (doe - doe \div 1460 + doe \div 36524 - doe \div 146096) \div 365
        doy == doe - (365 * yoe + yoe \div 4 - yoe \div 100)
        mp  == (5 * doy + 2) \div 153
        d   == doy - (153 * mp + 2) \div 5 + 1
        m   == IF mp < 10 THEN mp + 3 ELSE mp - 9
    IN  [y |-> yoe + era * 400 + (IF m <= 2 THEN 1 ELSE 0), m |-> m, d |-> d]

RECURSIVE DecimalText(_)
\* String(n) of a natural number
DecimalText(n) ==
    IF n < 10 THEN <<DigitChar(n)>>
    ELSE DecimalText(n \div 10) \o <<DigitChar(n % 10)>>

RECURSIVE PadStart(_, _)
\* s.padStart(width, "0")
PadStart(s, width) == IF Len(s) >= width THEN s ELSE PadStart(<<"0">> \o s, width)

\* the date printed without leading zeros
FormatDate_Unpadded(date) ==
    DecimalText(date.y) \o Dash \o DecimalText(date.m) \o Dash \o DecimalText(date.d)

\* format(date, "yyyy-MM-dd"): the local calendar date of a Date
FormatDate(date) ==
    PadStart(DecimalText(date.y), 4) \o Dash \o PadStart(DecimalText(date.m), 2)
        \o Dash \o PadStart(DecimalText(date.d), 2)

\* new Date(year, monthIndex, day): local midnight, months and days past the
\* end carried over
MakeDate(year, monthIndex, day) ==
    LET total == year * 12 + monthIndex
    IN  CivilFromDays(DaysFromCivil(total \div 12, (total % 12) + 1, 1) + day - 1)

\* date.toISOString().split("T")[0] of a local midnight: the same day at or
\* west of UTC, the day before east of it
IsoDay(date, zone) ==
    FormatDate(CivilFromDays(DaysFromCivil(date.y, date.m, date.d)
                             - (IF zone = "eastOfUtc" THEN 1 ELSE 0)))

DATE_FILTERS ==
    <<[label |-> "1M", months |-> 1], [label |-> "3M", months |-> 3],
      [label |-> "6M", months |-> 6], [label |-> "YTD", months |-> -1],
      [label |-> "1Y", months |-> 12], [label |-> "Max", months |-> 0]>>

\* "9999-12-31"
OpenEnd == <<"9", "9", "9", "9", "-", "1", "2", "-", "3", "1">>

\* chartData.filter(item => item.date >= fromStr && item.date <= toStr)
WithinRange(table, fromStr, toStr) ==
    SelectSeq(table, LAMBDA item : StrLeq(fromStr, item.date) /\ StrLeq(item.date, toStr))

\* the rows from the cutoff on, latest first
FromCutoff_LatestFirst(table, cutoffStr) ==
    Reverse(SelectSeq(table, LAMBDA item : StrLeq(cutoffStr, item.date)))

\* chartData.filter(item => item.date >= cutoffStr)
FromCutoff(table, cutoffStr) ==
    SelectSeq(table, LAMBDA item : StrLeq(cutoffStr, item.date))

\* the cutoff of the presets with a number of months
MonthsCutoff(label, today, zone) ==
    LET found == {i \in 1..Len(DATE_FILTERS) : DATE_FILTERS[i].label = label} IN
    IF found = {} \/ DATE_FILTERS[CHOOSE i \in found : TRUE].months = 0
    THEN SeriesStart
    ELSE LET months     == DATE_FILTERS[CHOOSE i \in found : TRUE].months
             cutoffDate == MakeDate(today.y, today.m - 1 - months, today.d)
             cutoffStr  == IsoDay(cutoffDate, zone)
         IN  IF StrLess(cutoffStr, SeriesStart) THEN SeriesStart ELSE cutoffStr

\* the useMemo callback of filteredChartData
FilterChartData(table, label, range, today, zone) ==
    IF Len(table) = 0 THEN <<>>
    ELSE IF label = "Custom"
         THEN (IF "from" \in DOMAIN range
               THEN WithinRange(table, FormatDate(range.from),
                                IF "to" \in DOMAIN range THEN FormatDate(range.to)
                                ELSE OpenEnd)
               ELSE table)
    ELSE IF label = "Max" THEN table
    ELSE IF label = "YTD"
         THEN FromCutoff(table, DecimalText(today.y) \o Dash \o <<"0", "1">>
                                    \o Dash \o <<"0", "1">>)
    ELSE FromCutoff(table, MonthsCutoff(label, today, zone))

----------------------------------------------------------------------------
(* filteredChartData applied to a drawn table *)

I_2026_03_03 == <<"2", "0", "2", "6", "-", "0", "3", "-", "0", "3">>

\* the dates of the rows a stored table can have, in table order
FilterDates ==
    <<I_2022_12_31, SeriesStart, I_2026_01_15, I_2026_02_01, I_2026_02_04,
      I_2026_03_03>>

\* the row a stored table has on the i-th date
FilterRow(i) ==
    IF i % 2 = 0 THEN [date |-> FilterDates[i], copper |-> Num(100 + i), zinc |-> Num(50)]
    ELSE [date |-> FilterDates[i], copper |-> Num(100 + i)]

RECURSIVE RowsOn(_, _)
\* the table with the rows of the chosen dates
RowsOn(chosen, i) ==
    IF i > Len(FilterDates) THEN <<>>
    ELSE (IF i \in chosen THEN <<FilterRow(i)>> ELSE <<>>) \o RowsOn(chosen, i + 1)

StoredTables == {RowsOn(chosen, 1) : chosen \in SUBSET (1..MaxFilterRows)}

Selectors == {"1M", "3M", "6M", "YTD", "1Y", "Max", "Custom"}

RangeDays ==
    {[y |-> 2023, m |-> 1, d |-> 1], [y |-> 2026, m |-> 2, d |-> 1],
     [y |-> 2026, m |-> 2, d |-> 4]}

\* undefined or a range without from, a range with from only, a full range
Ranges ==
    {<<>>} \cup {[key \in {"from"} |-> day] : day \in RangeDays}
           \cup [from : RangeDays, to : RangeDays]

\* what new Date() reads from the clock
Clocks ==
    {[y |-> 2026, m |-> 3, d |-> 31], [y |-> 2026, m |-> 2, d |-> 10],
     [y |-> 2023, m |-> 2, d |-> 15]}

FilterInit ==
    /\ filterTable \in StoredTables
    /\ dateFilter \in Selectors
    /\ dateRange \in Ranges
    /\ now \in Clocks
    /\ timeZone \in {"utcOrWest", "eastOfUtc"}
    /\ filterResult = <<>>
    /\ filterPc = "start"

FilterStep ==
    /\ filterPc = "start"
    /\ filterResult' = FilterChartData(filterTable, dateFilter, dateRange, now, timeZone)
    /\ filterPc' = "done"
    /\ UNCHANGED <<filterTable, dateFilter, dateRange, now, timeZone>>
    /\ UNCHANGED <<storeVars, mergeVars, normVars, calcVars, corrVars, detectVars, dbVars, lmeVars, timerVars, viewVars>>

InitFilter ==
    StoreInit /\ MergeIdle /\ NormIdle /\ CalcIdle /\ CorrIdle /\ DetectIdle /\ FilterInit /\ DbIdle /\ LmeIdle /\ TimerIdle /\ ViewIdle

SpecFilter == InitFilter /\ [][FilterStep]_vars

\* the day count of a canonical date string and of a chosen day
DayOfText(s) ==
    DaysFromCivil(DigitsValue(SubSeq(s, 1, 4)), DigitsValue(SubSeq(s, 6, 7)),
                  DigitsValue(SubSeq(s, 9, 10)))

DayOf(day) == DaysFromCivil(day.y, day.m, day.d)

\* C18: with the Custom selector and a range that has a from, exactly the
\* rows dated from..to are kept, in table order; without a to, every row
\* dated from or later.
C18_CustomRangeKept ==
    (filterPc = "done" /\ dateFilter = "Custom" /\ "from" \in DOMAIN dateRange) =>
        filterResult =
            SelectSeq(filterTable,
                      LAMBDA item :
                          /\ DayOf(dateRange.from) <= DayOfText(item.date)
                          /\ "to" \in DOMAIN dateRange =>
                                DayOfText(item.date) <= DayOf(dateRange.to))

\* the range 2026-02-01..2026-02-04 on the table of all five dates keeps the
\* two rows of February
C18_Witness ==
    /\ filterPc = "done" /\ dateFilter = "Custom"
    /\ Len(filterTable) = 5
    /\ dateRange = [from |-> [y |-> 2026, m |-> 2, d |-> 1],
                    to |-> [y |-> 2026, m |-> 2, d |-> 4]]
    /\ Len(filterResult) = 2
    /\ filterResult[1].date = I_2026_02_01 /\ filterResult[2].date = I_2026_02_04

Presets == {"1M", "3M", "6M", "YTD", "1Y", "Max"}

\* C19 as stated: with a preset selector no row dated before 2023-01-01 is in
\* filteredChartData, whatever the stored table.
C19_PresetsFromSeriesStart ==
    (filterPc = "done" /\ dateFilter \in Presets) =>
        \A i \in 1..Len(filterResult) : StrLeq(SeriesStart, filterResult[i].date)

RECURSIVE IsSubsequence(_, _)
\* s is t with some rows left out
IsSubsequence(s, t) ==
    IF s = <<>> THEN TRUE
    ELSE IF t = <<>> THEN FALSE
    ELSE IF Head(s) = Head(t) THEN IsSubsequence(Tail(s), Tail(t))
    ELSE IsSubsequence(s, Tail(t))

\* C20: for every selector filteredChartData is chartData with some rows left
\* out: same order, each kept row unchanged.
C20_FilterOnlyNarrows ==
    filterPc = "done" => IsSubsequence(filterResult, filterTable)

\* YTD on 2026-02-10 keeps the last three of five rows, in table order
C20_Witness ==
    /\ filterPc = "done" /\ dateFilter = "YTD"
    /\ now = [y |-> 2026, m |-> 2, d |-> 10]
    /\ Len(filterTable) = 5 /\ Len(filterResult) = 3
    /\ filterResult = SubSeq(filterTable, 3, 5)

----------------------------------------------------------------------------
(* commodity_prices and its upsert statements *)

\* the rows of the reference table commodities: SERIAL ids in insertion order
commodities ==
    {[id |-> 1, code |-> "COPPER"], [id |-> 2, code |-> "ZINC"], [id |-> 3, code |-> "OIL"]}

\* a nullable value is <<>> for NULL and <<v>> for the value v
SqlNull == <<>>

\* (SELECT id FROM commodities WHERE code = ...): NULL when no row has the code
CommodityId(code) ==
    IF \E c \in commodities : c.code = code
    THEN <<(CHOOSE c \in commodities : c.code = code).id>>
    ELSE SqlNull

\* a numeric given in thousandths stored in a DECIMAL(12, 2) column, in
\* hundredths: rounded to the nearest cent, halves away from zero
Decimal2(mills) == (mills + 5) \div 10

\* UNIQUE(commodity_id, price_date): the rows in conflict with a proposed row
Conflicting(table, commodity_id, price_date) ==
    {r \in table : r.commodity_id = commodity_id /\ r.price_date = price_date}

\* the proposed row inserted whatever the table holds
Upserted_AlwaysInserts(table, id, commodity_id, price_date, price_value, cash_bid, setsBid) ==
    table \cup {[id |-> id, commodity_id |-> commodity_id, price_date |-> price_date,
                 price_value |-> price_value, cash_bid |-> cash_bid]}

\* INSERT ... ON CONFLICT (commodity_id, price_date) DO UPDATE SET ... on a
\* table: the conflicting row keeps its id and takes the EXCLUDED values
Upserted(table, id, commodity_id, price_date, price_value, cash_bid, setsBid) ==
    LET old == Conflicting(table, commodity_id, price_date) IN
    IF old = {}
    THEN table \cup {[id |-> id, commodity_id |-> commodity_id, price_date |-> price_date,
                      price_value |-> price_value, cash_bid |-> cash_bid]}
    ELSE (table \ old) \cup
         {[r EXCEPT !.price_value = price_value,
                    !.cash_bid = IF setsBid THEN cash_bid ELSE r.cash_bid] : r \in old}

PriceCodes == {"COPPER", "ZINC", "GOLD"}

PriceDates == {I_2026_02_04, I_2026_02_01}

\* prices in thousandths: 100.004, 100.005, 250.000
PriceValues == {100004, 100005, 250000}

\* one INSERT statement: nextval is taken for the proposed row before the
\* NOT NULL and UNIQUE checks, a NULL commodity_id aborts the statement
ExecuteUpsert(code, price_date, value, bid, setsBid) ==
    /\ Len(upsertLog) < MaxUpserts
    /\ priceIdSeq' = priceIdSeq + 1
    /\ upsertLog' = Append(upsertLog, [code |-> code, price_date |-> price_date,
                                       value |-> value])
    /\ commodity_prices' =
           IF CommodityId(code) = SqlNull THEN commodity_prices
           ELSE Upserted(commodity_prices, priceIdSeq + 1, CommodityId(code)[1], price_date,
                         Decimal2(value), bid, setsBid)
    /\ UNCHANGED <<storeVars, mergeVars, normVars, calcVars, corrVars, detectVars, filterVars, lmeVars, timerVars, viewVars>>

\* queries.sql: the upsert that sets price_value and the bid/offer columns
UpsertPrice ==
    \E code \in PriceCodes, price_date \in PriceDates, value \in PriceValues :
        ExecuteUpsert(code, price_date, value, <<Decimal2(value) - 250>>, TRUE)

\* README.md "Insert new price": the upsert that sets price_value only
InsertNewPrice ==
    \E code \in PriceCodes, price_date \in PriceDates, value \in PriceValues :
        ExecuteUpsert(code, price_date, value, SqlNull, FALSE)

DbNext == UpsertPrice \/ InsertNewPrice

InitDb ==
    StoreInit /\ MergeIdle /\ NormIdle /\ CalcIdle /\ CorrIdle /\ DetectIdle /\ FilterIdle /\ DbIdle /\ LmeIdle /\ TimerIdle /\ ViewIdle

SpecDb == InitDb /\ [][DbNext]_vars

\* the upserts of the log that named a known commodity and this key
UpsertsOf(commodity_id, price_date) ==
    {i \in 1..Len(upsertLog) :
        /\ CommodityId(upsertLog[i].code) = <<commodity_id>>
        /\ upsertLog[i].price_date = price_date}

Max(S) == CHOOSE x \in S : \A y \in S : y <= x

----------------------------------------------------------------------------
(* LMEDataFetcher: fetch, keep in memory, save to the localStorage cache *)

\* a number as JSON.stringify followed by JSON.parse gives it back: NaN and
\* the infinities are written as null
JsonNumber(x) == IF x.k = "fin" THEN x ELSE [k |-> "null", n |-> 0, d |-> 1]

\* JSON.parse(JSON.stringify(data)) of a table
JsonRoundTrip(data) ==
    [i \in 1..Len(data) |->
        [f \in DOMAIN data[i] |-> IF f = "date" THEN data[i][f] ELSE JsonNumber(data[i][f])]]

TableNaN == <<[date |-> I_2026_02_04, copper |-> NaN, oil |-> Num(70)]>>

\* tables the merge of handleFetchAndDisplayChart hands on
MergedTables == {TableA, TableB, TableNaN}

\* error.message of a failed fetch, of a source answering not ok, of a body
\* that is no JSON
FetchFailures ==
    {NetworkMessage, FailedSourcesMessage, "Unexpected token < in JSON at position 0"}

\* err.message?.includes("fetch")
IncludesFetch(message) == message \in {NetworkMessage, FailedSourcesMessage}

CannotConnectMessage == "Cannot connect to Python backend!"

\* what the two setItem calls do: both succeed, the first throws, the second
\* throws after the first has written
StorageOutcomes == {"saved", "firstThrows", "secondThrows"}

\* localStorage after saveToCache(data) at the given time
StorageAfterSave(storage, data, time, outcome) ==
    IF outcome = "firstThrows" THEN storage
    ELSE IF outcome = "secondThrows"
         THEN [key \in DOMAIN storage \cup {"commodityChartData"} |->
                  IF key = "commodityChartData" THEN JsonRoundTrip(data) ELSE storage[key]]
    ELSE [commodityChartData |-> JsonRoundTrip(data), commodityChartCacheTime |-> time]

\* what localStorage holds when the page is opened
StorageAtStart ==
    {<<>>, [commodityChartData |-> JsonRoundTrip(TableB)],
     [commodityChartData |-> JsonRoundTrip(TableA), commodityChartCacheTime |-> 0]}

LmeInit ==
    /\ lmeLoading = FALSE /\ lmeError = "" /\ lmeSuccess = [kind |-> "none"]
    /\ lmeChartData = <<>> /\ lmeShowChart = FALSE
    /\ cacheAvailable = FALSE /\ lastCacheTime = <<>>
    /\ localStorage \in StorageAtStart /\ consoleErrors = 0
    /\ lmeFetches = 0 /\ lastSave = "none" /\ lmePc = "unmounted"

LmeOthersUnchanged ==
    UNCHANGED <<storeVars, mergeVars, normVars, calcVars, corrVars, detectVars, filterVars,
                dbVars, timerVars, viewVars>>

\* the mount effect: loadCachedDataOnMount
LoadCachedDataOnMount ==
    /\ lmePc = "unmounted"
    /\ lmePc' = "idle"
    /\ IF DOMAIN localStorage = {"commodityChartData", "commodityChartCacheTime"}
       THEN /\ lmeChartData' = localStorage.commodityChartData
            /\ lmeShowChart' = TRUE
            /\ cacheAvailable' = TRUE
            /\ lastCacheTime' = <<localStorage.commodityChartCacheTime>>
            /\ lmeSuccess' = [kind |-> "cached", points |-> Len(localStorage.commodityChartData)]
       ELSE /\ lmeSuccess' = [kind |-> "noCache"]
            /\ UNCHANGED <<lmeChartData, lmeShowChart, cacheAvailable, lastCacheTime>>
    /\ UNCHANGED <<lmeLoading, lmeError, localStorage, consoleErrors, lmeFetches, lastSave>>
    /\ LmeOthersUnchanged

\* handleFetchAndDisplayChart up to its first await
HandleFetchStart ==
    /\ lmePc = "idle"
    /\ lmeFetches < MaxFetches
    /\ lmeLoading' = TRUE
    /\ lmeError' = ""
    /\ lmeSuccess' = [kind |-> "none"]
    /\ lmeShowChart' = FALSE
    /\ lmeFetches' = lmeFetches + 1
    /\ lmePc' = "fetching"
    /\ UNCHANGED <<lmeChartData, cacheAvailable, lastCacheTime, localStorage, consoleErrors,
                   lastSave>>
    /\ LmeOthersUnchanged

\* the rest of the try block: setChartData, setShowChart, saveToCache with its
\* own try/catch, setSuccess; then finally
HandleFetchMerged ==
    /\ lmePc = "fetching"
    /\ \E filteredData \in MergedTables, outcome \in StorageOutcomes :
        /\ lmeChartData' = filteredData
        /\ lmeShowChart' = TRUE
        /\ localStorage' = StorageAfterSave(localStorage, filteredData, lmeFetches, outcome)
        /\ IF outcome = "saved"
           THEN /\ cacheAvailable' = TRUE
                /\ lastCacheTime' = <<lmeFetches>>
                /\ UNCHANGED consoleErrors
           ELSE /\ consoleErrors' = consoleErrors + 1
                /\ UNCHANGED <<cacheAvailable, lastCacheTime>>
        /\ lastSave' = IF outcome = "saved" THEN "saved" ELSE "failed"
        /\ lmeSuccess' = [kind |-> "loadedAndSaved", points |-> Len(filteredData)]
    /\ lmeLoading' = FALSE
    /\ lmePc' = "idle"
    /\ UNCHANGED <<lmeError, lmeFetches>>
    /\ LmeOthersUnchanged

\* the catch block, then finally
HandleFetchFailed ==
    /\ lmePc = "fetching"
    /\ \E message \in FetchFailures :
        lmeError' = IF IncludesFetch(message) THEN CannotConnectMessage ELSE message
    /\ consoleErrors' = consoleErrors + 1
    /\ lastSave' = "none"
    /\ lmeLoading' = FALSE
    /\ lmePc' = "idle"
    /\ UNCHANGED <<lmeSuccess, lmeChartData, lmeShowChart, cacheAvailable, lastCacheTime,
                   localStorage, lmeFetches>>
    /\ LmeOthersUnchanged

LmeNext ==
    LoadCachedDataOnMount \/ HandleFetchStart \/ HandleFetchMerged \/ HandleFetchFailed

InitLme ==
    StoreInit /\ MergeIdle /\ NormIdle /\ CalcIdle /\ CorrIdle /\ DetectIdle /\ FilterIdle /\ DbIdle /\ LmeInit /\ TimerIdle /\ ViewIdle

SpecLme == InitLme /\ [][LmeNext]_vars

\* C22 as stated: after a fetch whose save to the cache failed, an error is
\* reported to the user of the handler and the table in memory is the freshly
\* merged one.
C22_SaveFailureSurfaced ==
    (lmePc = "idle" /\ lastSave = "failed") =>
        /\ lmeError # ""
        /\ lmeSuccess.kind # "loadedAndSaved"
        /\ lmeShowChart /\ lmeChartData \in MergedTables

\* the place of a kind of line in a change record
LineRank(kind) ==
    CASE kind = "Added" -> 1 [] kind = "New" -> 2 [] kind = "more" -> 3
      [] kind = "Updated" -> 4 [] kind = "Update" -> 5 [] kind = "more updates" -> 6

\* the lines of the given kinds in the details of a record
DetailsOf(record, kinds) == SelectSeq(record.details, LAMBDA c : c.line \in kinds)

C24_TickEveryInterval == mounted => sinceTick <= IntervalMinutes

----------------------------------------------------------------------------
(* The dashboard's local state, its toolbar handlers and its memos *)

\* a dateRange that is undefined, as against a range object without from
Undefined == [undefined |-> TRUE]

\* the useState values of the component that the toolbar writes
ViewState ==
    [dateFilter |-> dateFilter, dateRange |-> dateRange, displayMode |-> displayMode,
     visibleSeries |-> visibleSeries]

\* a toggle that also puts the display mode back to absolute
toggleSeries_ResetsMode(v, series) ==
    [v EXCEPT !.visibleSeries[series] = ~v.visibleSeries[series],
              !.displayMode = "absolute"]

\* setVisibleSeries(prev => ({ ...prev, [series]: !prev[series] }))
toggleSeries(v, series) == [v EXCEPT !.visibleSeries[series] = ~v.visibleSeries[series]]

\* Calendar onSelect: setDateRange(range); if (range) setDateFilter("Custom")
selectRange(v, range) ==
    [v EXCEPT !.dateRange = range,
              !.dateFilter = IF range # Undefined THEN "Custom" ELSE v.dateFilter]

\* a preset click that leaves the chosen range in place
clickPreset_KeepsRange(v, label) == [v EXCEPT !.dateFilter = label]

\* preset button onClick: setDateFilter(filter.label); setDateRange(undefined)
clickPreset(v, label) == [v EXCEPT !.dateFilter = label, !.dateRange = Undefined]

\* the three calculateCorrelation calls of the correlations memo
Correlations(filtered) ==
    [copperOil  |-> calculateCorrelation(filtered, "copper", "oil"),
     zincOil    |-> calculateCorrelation(filtered, "zinc", "oil"),
     copperZinc |-> calculateCorrelation(filtered, "copper", "zinc")]

\* the <Line> elements of the chart: {visibleSeries.copper && (...)} and so on
LinesShown(visible) == {s \in Commodities : visible[s]}

\* the render after a handler set the state to v: each useMemo recomputes
\* when one of its dependencies changed and keeps its value otherwise
Render(v) ==
    /\ dateFilter' = v.dateFilter
    /\ dateRange' = v.dateRange
    /\ displayMode' = v.displayMode
    /\ visibleSeries' = v.visibleSeries
    /\ filterResult' =
          IF <<v.dateFilter, v.dateRange>> = <<dateFilter, dateRange>> THEN filterResult
          ELSE FilterChartData(filterTable, v.dateFilter, v.dateRange, now, timeZone)
    /\ displayData' =
          IF <<filterResult', v.displayMode>> = <<filterResult, displayMode>> THEN displayData
          ELSE calculateChartData(filterResult', v.displayMode)
    /\ correlations' =
          IF filterResult' = filterResult THEN correlations ELSE Correlations(filterResult')
    /\ shownLines' = LinesShown(v.visibleSeries)
    /\ UNCHANGED <<filterTable, now, timeZone, filterPc, filteredChartData, calcPc>>
    /\ UNCHANGED <<storeVars, mergeVars, normVars, corrVars, detectVars, dbVars, lmeVars,
                   timerVars>>

\* a table with copper and oil on five dates
ViewTable ==
    [i \in 1..5 |-> [date |-> FilterDates[i + 1], copper |-> Num(100 + i),
                     oil |-> Num(70 + i * i)]]

ViewTables == {<<>>, TableB, ViewTable}

\* the first render: Max, no range, absolute values, every series shown
ViewInit ==
    /\ filterTable \in ViewTables
    /\ dateFilter = "Max" /\ dateRange = Undefined
    /\ now \in Clocks /\ timeZone = "utcOrWest"
    /\ filterResult = FilterChartData(filterTable, "Max", Undefined, now, timeZone)
    /\ filterPc = "idle"
    /\ filteredChartData = <<>> /\ calcPc = "idle"
    /\ displayMode = "absolute"
    /\ displayData = calculateChartData(filterResult, "absolute")
    /\ visibleSeries = [s \in Commodities |-> TRUE]
    /\ correlations = Correlations(filterResult)
    /\ shownLines = Commodities
    /\ lastHandler = "none"

ToggleSeries ==
    \E series \in Commodities :
        lastHandler' = "toggleSeries" /\ Render(toggleSeries(ViewState, series))

SelectRange ==
    \E range \in {Undefined} \cup Ranges :
        lastHandler' = "selectRange" /\ Render(selectRange(ViewState, range))

ClickPreset ==
    \E i \in 1..Len(DATE_FILTERS) :
        lastHandler' = "clickPreset" /\ Render(clickPreset(ViewState, DATE_FILTERS[i].label))

SetDisplayMode ==
    \E mode \in {"absolute", "indexed"} :
        lastHandler' = "setDisplayMode" /\ Render([ViewState EXCEPT !.displayMode = mode])

ViewNext == ToggleSeries \/ SelectRange \/ ClickPreset \/ SetDisplayMode

InitView ==
    /\ StoreInit /\ MergeIdle /\ NormIdle /\ CorrIdle /\ DetectIdle /\ DbIdle /\ LmeIdle
    /\ TimerIdle /\ ViewInit

SpecView == InitView /\ [][ViewNext]_vars

\* C25: a step that changes the visibility of a series leaves chartData,
\* filteredChartData, displayData and the three correlations as they were;
\* the lines drawn become those of the visible series.
C25_ToggleFrame ==
    [][visibleSeries' # visibleSeries =>
          /\ UNCHANGED <<filterTable, filterResult, displayData, correlations>>
          /\ shownLines' = {s \in Commodities : visibleSeries'[s]}]_vars

\* copper hidden on the five-row table in indexed mode: two lines drawn, all
\* five rows and a copper/oil correlation still there
C25_Witness ==
    /\ lastHandler = "toggleSeries"
    /\ ~visibleSeries["copper"] /\ shownLines = {"zinc", "oil"}
    /\ displayMode = "indexed" /\ Len(displayData) = 5
    /\ filterResult = ViewTable
    /\ correlations.copperOil # Num(0)

\* C29: dateRange is defined only while dateFilter is "Custom"; a preset
\* click always leaves dateRange undefined and the selection of a range always
\* leaves dateFilter at "Custom".
C29_RangeOnlyWithCustom ==
    /\ [](dateRange # Undefined => dateFilter = "Custom")
    /\ [][/\ lastHandler' = "clickPreset" => dateRange' = Undefined
          /\ (lastHandler' = "selectRange" /\ dateRange' # Undefined)
                 => dateFilter' = "Custom"]_vars

\* a range was chosen after other toolbar use: Custom with that range
C29_Witness ==
    /\ lastHandler = "selectRange"
    /\ dateFilter = "Custom" /\ "from" \in DOMAIN dateRange
    /\ displayMode = "indexed"

\* C26 as stated: state.loading is true whenever a fetchFreshData or
\* loadFromDatabase thunk is pending.
C26_LoadingWhilePending == thunks # <<>> => loading

\* the dates of the previous table that the new table lacks
Removed == DatesOf(detectPrev) \ DatesOf(detectNew)

\* C27: a date of the previous table that the new table lacks gets no detail
\* line and is in neither count; against an empty new table nothing at all
\* is reported.
C27_RemovalsUnreported ==
    detectPc = "done" =>
        /\ \A i \in 1..Len(changeLog) :
              /\ changeLog[i].line = "New" => changeLog[i].row.date \notin Removed
              /\ changeLog[i].line = "Update" => changeLog[i].date \notin Removed
              /\ changeLog[i].line = "Added" => changeLog[i].n = Len(Additions)
              /\ changeLog[i].line = "Updated" => changeLog[i].n = Cardinality(UpdatedDates)
        /\ detectNew = <<>> => changeLog = <<>> /\ postedLogs = <<>> /\ ~showChangeLog

\* a previous table of three rows against an empty new one: nothing reported
C27_Witness ==
    /\ detectPc = "done"
    /\ Len(detectPrev) = 3 /\ detectNew = <<>>
    /\ Cardinality(Removed) = 3
    /\ changeLog = <<>> /\ postedLogs = <<>>

----------------------------------------------------------------------------
(* A fetch whose merged table is the table already stored *)

\* handleFetchFresh after its await with prevData and the payload both the
\* merged table
SelfDiffStep ==
    /\ mergePc = "done" /\ detectPc = "idle"
    /\ detectPrev' = combinedData
    /\ detectNew' = combinedData
    /\ AfterFulfilled(combinedData, combinedData)
    /\ detectPc' = "done"
    /\ UNCHANGED <<chartData, loading, error, dataSource, thunks, mounted, fetches,
                   lastResult>>
    /\ UNCHANGED <<mergeVars, normVars, calcVars, corrVars, filterVars, dbVars, lmeVars,
                   timerVars, viewVars>>

RefetchNext == MergeStep \/ SelfDiffStep

SpecRefetch == InitMerge /\ [][RefetchNext]_vars

\* C28 as stated: a table the merge produces, diffed against itself, gives no
\* additions, no updates and no detail lines.
C28_SelfDiffIsEmpty ==
    (mergePc = "done" /\ detectPc = "done") =>
        changeLog = <<>> /\ postedLogs = <<>> /\ ~showChangeLog

\* C30: in indexed mode every output row has a number in copper, zinc and
\* oil; for a commodity the input row lacks it is exactly 100, with
\* percent-change 0 and no raw value.
C30_AbsentIndexedAs100 ==
    (calcPc = "done" /\ displayMode = "indexed") =>
        \A i \in 1..Len(filteredChartData) : \A f \in Commodities :
            /\ Has(displayData[i], f)
            /\ displayData[i][f].k \in {"fin", "nan", "inf"}
            /\ ~Has(filteredChartData[i], f) =>
                  /\ displayData[i][f] = Num(100)
                  /\ displayData[i][PctKey(f)] = Num(0)
                  /\ ~Has(displayData[i], RawKey(f))

\* zinc at 50 on the first row and missing on the second: the second row
\* shows zinc 100, as it would for zinc still at 50
C30_Witness ==
    /\ calcPc = "done" /\ displayMode = "indexed"
    /\ Len(filteredChartData) = 2
    /\ Has(filteredChartData[1], "zinc") /\ filteredChartData[1].zinc = Num(50)
    /\ ~Has(filteredChartData[2], "zinc")
    /\ displayData[1].zinc = Num(100) /\ displayData[2].zinc = Num(100)
    /\ displayData[2].pctZinc = Num(0) /\ ~Has(displayData[2], "rawZinc")

====
